---- MODULE Spec2Model ----
(***************************************************************************)
(* State-machine model of the client-side service modules of the Elite     *)
(* Dental voice-assistant site: EmergencyTriage, NoShowDefender,           *)
(* RecallAutomator, DentalService, HIPAAShield, AirtableService with the   *)
(* useAirtable hook, ErrorBoundaryService, the useVapi hook and the voice  *)
(* assistant of vapi-integration.                                          *)
(*                                                                         *)
(* The services are independent static classes, so each one has its own    *)
(* next-state relation and specification over the shared initial state;    *)
(* a specification leaves the variables of the other services unchanged.   *)
(* JavaScript strings are TLA+ strings; their characters are the           *)
(* one-character substrings SubSeq(s, i, i).                               *)
(***************************************************************************)
EXTENDS Integers, Sequences, FiniteSets, TLC

VARIABLES
    abBase,         \* AirtableService: the records of the Patients, Appointments
                    \* and Emergency Log tables of the base
    abEvent,        \* AirtableService: the last createEmergencyAppointment call,
                    \* the patients it found in the base and the writes it made
    abCalls,        \* AirtableService: the createEmergencyAppointment calls so far
    dbBooking,      \* DentalService: the last handleEmergency call of a run of
                    \* emergency calls, when it was made and what it booked
    dbOps,          \* DentalService: the handleEmergency calls of that run
    inCalls,        \* DentalService: the initialize calls from outside so far
    inScheduled,    \* DentalService: the retries initialize has scheduled so far
    inEvent,        \* DentalService: the last initialize call, what it returned
                    \* and the state it found
    ebReports,      \* ErrorBoundaryService.errorReports
    ebClock,        \* ErrorBoundaryService: the reading of Date.now(), in ms
    ebCount,        \* ErrorBoundaryService: the reports made so far
    ebReported,     \* ErrorBoundaryService: the reports made since the store
                    \* was last cleared, by their rank among all reports
    ebVaried,       \* ErrorBoundaryService: whether the run had its one call
                    \* that is not the regular one
    ebEvent,        \* ErrorBoundaryService: the last call and what it returned
    elOps,          \* DentalService: the calls of a run that fills the error log
    elVaried,       \* DentalService: whether that run had its one call that is
                    \* not the regular one
    elLogged,       \* DentalService: the entries handed to errorLog.push since
                    \* the log was last cleared
    viEvent,        \* vapi-integration: the event of the last handler run
    viMessage,      \* vapi-integration: the message of the last message event
    viCalls,        \* vapi-integration: the calls the last handler run made
                    \* to HIPAAShield and EmergencyTriage, in order
    viCount,        \* vapi-integration: the handler runs so far
    atMounted,      \* useAirtable: "no", "checking" or "yes": the mount effect
    atConnected,    \* useAirtable: isConnected
    atLoading,      \* useAirtable: isLoading
    atError,        \* useAirtable: error, "null" for null
    atPending,      \* useAirtable: the operations awaiting airtableService
    atEvent,        \* useAirtable: the last step and, for a settled operation,
                    \* its outcome
    atOps,          \* useAirtable: the operations begun so far
    rcLists,        \* RecallAutomator: the lists and the counts returned by the
                    \* last getDueRecalls, getOverdueRecalls or getRecallStats
    transcript,     \* useVapi: the transcript list
    tvClock,        \* useVapi messages: the reading of Date.now(), in ms
    tvCount,        \* useVapi messages: the messages received so far
    tvVaried,       \* useVapi messages: a message out of the regular exchange
                    \* has been received
    tvArrived,      \* useVapi messages: the entries that arrived since the list
                    \* was last empty, duplicates left out, in arrival order
    tvMessage,      \* useVapi messages: the message received last
    tvHanded,       \* useVapi messages: whether the last message made the handler
                    \* call DentalService.handleEmergency, and with which text
    utterance,      \* EmergencyTriage: argument of the last triage call
    triagePc,       \* EmergencyTriage: "idle", "analysed" or "handled"
    analysis,       \* EmergencyTriage: result of the last analyzeEmergency
    triageBooked,   \* EmergencyTriage: handleEmergencyUtterance's return value
    bookings,       \* EmergencyTriage: the bookEmergencyAppointment calls
                    \* observed since the last triage call (argument and
                    \* result), most recent last, at most two kept
    waitlist,       \* NoShowDefender.waitlist, in array order
    wlClock,        \* NoShowDefender: the reading of Date.now()
    wlNextUid,      \* NoShowDefender: identity of the next entry object
    hcPending,      \* NoShowDefender: handleCancellation calls suspended at
                    \* the await of line 98, in the order they will resume
    hcCalls,        \* NoShowDefender: handleCancellation calls begun so far
    hcDecision,     \* NoShowDefender: slot, waitlist on entry and choice of
                    \* the handleCancellation call begun last
    hcReturned,     \* NoShowDefender: the filled results returned so far
    patientRecalls, \* RecallAutomator.patientRecalls, in array order
    rcNow,          \* RecallAutomator: the reading of Date.now(), in days
    rcCall,         \* RecallAutomator / DentalService.scheduleRecall: the
                    \* last call observed, its argument and its result
    rcOps,          \* RecallAutomator / DentalService: calls and clock
                    \* advances so far
    dsCall,         \* DentalService: the last call, its arguments and its outcome
    dsOps,          \* DentalService: the calls made so far
    ds,             \* DentalService: initialized, initializationAttempts,
                    \* errorLog and the pending initialize retry timers
    hsText,         \* HIPAAShield: argument of the last redactPHI call
    hsResult,       \* HIPAAShield: result of the last redactPHI call
    hsAuditLog,     \* HIPAAShield.auditLog
    vapiRef,        \* useVapi: vapiRef.current, "null" or "vapi"
    handlers,       \* useVapi: the handlers registered by the mount effect,
                    \* with the isCallActive and error their closures hold
    callStatus,     \* useVapi: call.status
    isCallActive,   \* useVapi: state of the same name
    isLoading,      \* useVapi: state of the same name
    vapiError,      \* useVapi: the error state, "null" for null
    connectionHealth, \* useVapi: state of the same name
    reconnectAttempts, \* useVapi: reconnectAttemptsRef.current
    startPending,   \* useVapi: startCall calls awaiting vapi.start
    vapiTimers,     \* useVapi: the timeouts set and not yet run
    vapiEvent,      \* useVapi: the last handler or function run
    vapiSteps       \* useVapi: the number of handlers and functions run

triageVars == <<utterance, triagePc, analysis, triageBooked>>
bookingVars == <<bookings>>
waitlistVars == <<waitlist, wlClock, wlNextUid, hcPending, hcCalls, hcDecision, hcReturned>>
recallVars == <<patientRecalls, rcNow, rcCall, rcOps, rcLists>>
dentalVars == <<ds, dsCall, dsOps>>
shieldVars == <<hsText, hsResult, hsAuditLog>>
vapiVars == <<vapiRef, handlers, callStatus, isCallActive, isLoading, vapiError,
              connectionHealth, reconnectAttempts, startPending, vapiTimers,
              vapiEvent, vapiSteps, transcript>>
airtableVars == <<atMounted, atConnected, atLoading, atError, atPending, atEvent, atOps>>
baseVars == <<abBase, abEvent, abCalls>>
emergencyVars == <<dbBooking, dbOps>>
initVars == <<inCalls, inScheduled, inEvent>>
boundaryVars == <<ebReports, ebClock, ebCount, ebReported, ebVaried, ebEvent>>
errorLogVars == <<elOps, elVaried, elLogged>>
integrationVars == <<viEvent, viMessage, viCalls, viCount>>
messageVars == <<tvClock, tvCount, tvVaried, tvArrived, tvMessage, tvHanded>>
vars == <<airtableVars, messageVars, integrationVars, errorLogVars, boundaryVars, initVars,
          emergencyVars, baseVars, utterance, triagePc, analysis, triageBooked, bookings,
          waitlist, wlClock, wlNextUid, hcPending, hcCalls, hcDecision, hcReturned,
          patientRecalls, rcNow, rcCall, rcOps, rcLists, ds, dsCall, dsOps,
          hsText, hsResult, hsAuditLog, vapiVars>>

(***************************************************************************)
(* Bounds of the model.                                                    *)
(***************************************************************************)
MaxWords == 2          \* phrases of the vocabulary per utterance
MaxInputScore == 101   \* largest urgencyScore a caller hands to booking
MaxWaitlistOps == 5    \* NoShowDefender calls and clock advances in a run
MaxRecallOps == 2      \* recall calls and clock advances in a run
MaxRedactions == 1     \* redactPHI calls in a run
MaxVapiSteps == 4      \* useVapi handlers and functions run in a run
MaxDentalOps == 2      \* DentalService calls in a run
MaxAirtableOps == 3    \* useAirtable operations begun in a run
MaxMessages == 52      \* messages the useVapi hook receives in a run
MaxEmergencyAppointments == 2 \* AirtableService.createEmergencyAppointment calls in a run
MaxEmergencyCalls == 1 \* DentalService.handleEmergency calls in a run of emergency calls
MaxInitCalls == 24     \* DentalService.initialize calls from outside in a run
MaxRecoveries == 2     \* ErrorBoundaryService.reportError calls in a run of recoveries
MaxReports == 102      \* ErrorBoundaryService.reportError calls in a run
MaxLoggedCalls == 103  \* DentalService calls in a run that fills the error log
MaxVoiceEvents == 2    \* events the voice assistant of vapi-integration receives in a run

(***************************************************************************)
(* JavaScript string primitives.                                           *)
(***************************************************************************)
RemoveAt(seq, i) == SubSeq(seq, 1, i - 1) \o SubSeq(seq, i + 1, Len(seq))

Min(a, b) == IF a < b THEN a ELSE b
Max(a, b) == IF a > b THEN a ELSE b

UpperChars == "ABCDEFGHIJKLMNOPQRSTUVWXYZ"
LowerChars == "abcdefghijklmnopqrstuvwxyz"

CharAt(s, i) == SubSeq(s, i, i)

\* Position of the one-character string c in the string chars, 0 when absent.
IndexOfChar(chars, c) ==
    IF \E i \in 1..Len(chars) : CharAt(chars, i) = c
    THEN CHOOSE i \in 1..Len(chars) : CharAt(chars, i) = c
    ELSE 0

LowerChar(c) ==
    IF IndexOfChar(UpperChars, c) = 0 THEN c
    ELSE CharAt(LowerChars, IndexOfChar(UpperChars, c))

\* String.prototype.toLowerCase over ASCII
RECURSIVE ToLowerCase(_)
ToLowerCase(s) ==
    IF Len(s) = 0 THEN s
    ELSE LowerChar(CharAt(s, 1)) \o ToLowerCase(SubSeq(s, 2, Len(s)))

\* String.prototype.includes: kw occurs in s as a contiguous substring
Includes(s, kw) ==
    \E i \in 1..(Len(s) - Len(kw) + 1) : SubSeq(s, i, i + Len(kw) - 1) = kw

\* Array.prototype.some over a sequence of strings
SomeIncluded(s, words) == \E k \in 1..Len(words) : Includes(s, words[k])

\* Array.prototype.join
RECURSIVE Join(_, _)
Join(ws, sep) ==
    IF Len(ws) = 0 THEN ""
    ELSE IF Len(ws) = 1 THEN ws[1]
    ELSE ws[1] \o sep \o Join(Tail(ws), sep)

(***************************************************************************)
(* EmergencyTriage (src/src/services/emergencyTriage.ts)                   *)
(***************************************************************************)
emergencyKeywords ==
    << "pain", "broken", "emergency", "swollen", "bleeding",
       "urgent", "hurt", "ache", "throbbing", "severe",
       "unbearable", "excruciating", "can't sleep", "can't eat" >>

painSevere == << "unbearable", "excruciating", "worst", "can't", "crying" >>
painModerate == << "bad", "hurts", "painful", "aching", "throbbing" >>
painMild == << "slight", "little", "minor", "uncomfortable" >>

\* lines 34-36: the configured keywords found in the lower-cased utterance
FoundKeywords(lower) == SelectSeq(emergencyKeywords, LAMBDA kw : Includes(lower, kw))

PainLevelNoDefault(lower) ==
    IF SomeIncluded(lower, painSevere) THEN 9
    ELSE IF SomeIncluded(lower, painModerate) THEN 6
    ELSE 3

\* lines 45-53
PainLevel(lower) ==
    IF SomeIncluded(lower, painSevere) THEN 9
    ELSE IF SomeIncluded(lower, painModerate) THEN 6
    ELSE IF SomeIncluded(lower, painMild) THEN 3
    ELSE 5

\* lines 56-62: the score before it is clamped
UnclampedScore(lower) ==
    Len(FoundKeywords(lower)) * 15 + PainLevel(lower) * 8
    + (IF Includes(lower, "since last night") \/ Includes(lower, "all night")
       THEN 20 ELSE 0)

UrgencyScoreNoClamp(lower) == UnclampedScore(lower)

\* line 64
UrgencyScore(lower) == Min(UnclampedScore(lower), 100)

NotEmergency == [isEmergency |-> FALSE, painLevel |-> 0, symptoms |-> <<>>, urgencyScore |-> 0]

analyzeEmergencyCaseSensitive(u) ==
    IF Len(FoundKeywords(u)) = 0 THEN NotEmergency
    ELSE [isEmergency |-> TRUE, painLevel |-> PainLevel(u),
          symptoms |-> FoundKeywords(u), urgencyScore |-> UrgencyScore(u)]

\* lines 25-72
analyzeEmergency(u) ==
    LET lowerUtterance == ToLowerCase(u)
        foundKeywords == FoundKeywords(lowerUtterance)
    IN  IF Len(foundKeywords) = 0 THEN NotEmergency
        ELSE [isEmergency |-> TRUE,
              painLevel |-> PainLevel(lowerUtterance),
              symptoms |-> foundKeywords,
              urgencyScore |-> UrgencyScore(lowerUtterance)]

HoursToAddTwoTiers(score) == IF score > 80 THEN 2 ELSE 24

\* lines 80-81
HoursToAdd(score) == IF score > 80 THEN 2 ELSE IF score > 50 THEN 6 ELSE 24

\* lines 74-102: the booking built for an analysis; appointmentTime is in
\* hours from the clock reading of line 75
bookEmergencyAppointment(a) ==
    [type |-> "URGENT",
     maxWait |-> HoursToAdd(a.urgencyScore),
     symptoms |-> Join(a.symptoms, ", "),
     painLevel |-> a.painLevel,
     contactMethod |-> IF a.urgencyScore > 70 THEN "call" ELSE "sms",
     appointmentTime |-> HoursToAdd(a.urgencyScore)]

\* one observed call of bookEmergencyAppointment: its argument and its result
BookingCall(a) == [analysis |-> a, booking |-> bookEmergencyAppointment(a)]

\* The phrases utterances are built from.
Vocabulary ==
    { "pain", "Broken", "URGENT", "hurts", "aching", "throbbing",
      "unbearable", "can't sleep", "worst", "bad", "slight", "tooth",
      "all night", "since last night", "hello", "No Pain",
      "severe swollen bleeding emergency" }

RECURSIVE PhraseSeqs(_)
PhraseSeqs(n) ==
    IF n = 0 THEN { <<>> }
    ELSE PhraseSeqs(n - 1) \cup
         { Append(ws, w) : ws \in { x \in PhraseSeqs(n - 1) : Len(x) = n - 1 }, w \in Vocabulary }

Utterances == { Join(ws, " ") : ws \in PhraseSeqs(MaxWords) }

\* The last two bookings, most recent last.
Remember(bs, b) == IF Len(bs) < 2 THEN Append(bs, b) ELSE <<bs[2], b>>

\* a caller evaluates analyzeEmergency(u)
AnalyzeEmergency ==
    \E u \in Utterances :
        /\ triagePc = "idle"
        /\ utterance' = u
        /\ analysis' = analyzeEmergency(u)
        /\ triagePc' = "analysed"
        /\ triageBooked' = FALSE
        /\ bookings' = <<>>
        /\ UNCHANGED <<waitlistVars, recallVars, dentalVars, shieldVars, vapiVars,
                 airtableVars,
                 messageVars,
                 integrationVars,
                 errorLogVars,
                 boundaryVars,
                 initVars,
                 emergencyVars,
                 baseVars>>

\* lines 161-170
HandleEmergencyUtterance ==
    \E u \in Utterances :
        LET a == analyzeEmergency(u) IN
        /\ triagePc = "idle"
        /\ utterance' = u
        /\ analysis' = a
        /\ triagePc' = "handled"
        /\ triageBooked' = a.isEmergency
        /\ bookings' = IF a.isEmergency
                       THEN <<BookingCall(a)>>
                       ELSE <<>>
        /\ UNCHANGED <<waitlistVars, recallVars, dentalVars, shieldVars, vapiVars,
                 airtableVars,
                 messageVars,
                 integrationVars,
                 errorLogVars,
                 boundaryVars,
                 initVars,
                 emergencyVars,
                 baseVars>>

\* a caller hands an analysis of its own to bookEmergencyAppointment
BookEmergencyAppointment ==
    \E score \in 0..MaxInputScore :
        /\ bookings' = Remember(bookings,
               BookingCall([isEmergency |-> TRUE, painLevel |-> 5,
                            symptoms |-> <<"pain">>, urgencyScore |-> score]))
        /\ UNCHANGED <<triageVars, waitlistVars, recallVars, dentalVars, shieldVars, vapiVars,
                 airtableVars,
                 messageVars,
                 integrationVars,
                 errorLogVars,
                 boundaryVars,
                 initVars,
                 emergencyVars,
                 baseVars>>

\* the caller has consumed the result; the class keeps no state between calls
TriageReturn ==
    /\ triagePc # "idle"
    /\ utterance' = ""
    /\ triagePc' = "idle"
    /\ analysis' = NotEmergency
    /\ triageBooked' = FALSE
    /\ bookings' = <<>>
    /\ UNCHANGED <<waitlistVars, recallVars, dentalVars, shieldVars, vapiVars,
                 airtableVars,
                 messageVars,
                 integrationVars,
                 errorLogVars,
                 boundaryVars,
                 initVars,
                 emergencyVars,
                 baseVars>>

InitTriage ==
    /\ utterance = ""
    /\ triagePc = "idle"
    /\ analysis = NotEmergency
    /\ triageBooked = FALSE
    /\ bookings = <<>>

(***************************************************************************)
(* NoShowDefender (src/src/services/noShowDefender.ts)                     *)
(* Times are in hours; the class is loaded at clock reading StartClock.    *)
(***************************************************************************)
StartClock == 24

\* lines 35-60: the waitlist the class starts with
InitialWaitlist ==
    << [uid |-> 1, id |-> "1", preferredTimes |-> <<"morning", "afternoon">>,
        priority |-> "emergency", addedAt |-> StartClock - 2],
       [uid |-> 2, id |-> "2", preferredTimes |-> <<"afternoon">>,
        priority |-> "new_patient", addedAt |-> StartClock - 24],
       [uid |-> 3, id |-> "3", preferredTimes |-> <<"morning">>,
        priority |-> "regular", addedAt |-> StartClock - 3] >>

\* line 30: the configuration is private and never reassigned
autoFill == TRUE

\* line 75
priorityOrder(p) ==
    IF p = "emergency" THEN 0 ELSE IF p = "new_patient" THEN 1 ELSE 2

\* lines 74-84: the comparator's result is positive, a sorts after b
SortsAfter(a, b) ==
    IF priorityOrder(a.priority) # priorityOrder(b.priority)
    THEN priorityOrder(a.priority) - priorityOrder(b.priority) > 0
    ELSE a.addedAt - b.addedAt > 0

\* e put into the sorted sequence w behind every entry it does not sort before
RECURSIVE InsertSorted(_, _)
InsertSorted(w, e) ==
    IF Len(w) = 0 THEN <<e>>
    ELSE IF SortsAfter(w[Len(w)], e)
         THEN Append(InsertSorted(SubSeq(w, 1, Len(w) - 1), e), w[Len(w)])
         ELSE Append(w, e)

RECURSIVE StableSort(_)
StableSort(w) ==
    IF Len(w) = 0 THEN w
    ELSE InsertSorted(StableSort(SubSeq(w, 1, Len(w) - 1)), w[Len(w)])

SortWaitlistUnsorted(w) == w

\* lines 74-84: Array.prototype.sort is stable
SortWaitlist(w) == StableSort(w)

\* The slot descriptions handed to handleCancellation.
Slots == { "Tomorrow 9:00 AM - Emergency", "Friday Morning 10:00", "today AFTERNOON" }

\* line 88: appointmentSlot.toLowerCase(), evaluated once for each slot
timeSlot == [slot \in Slots |-> ToLowerCase(slot)]

\* lines 88-91
PatientAvailable(patient, appointmentSlot) ==
    \E k \in 1..Len(patient.preferredTimes) :
        Includes(timeSlot[appointmentSlot], patient.preferredTimes[k])

\* lines 87-93: index of the first available entry of w, 0 when there is none
FirstAvailable(w, appointmentSlot) ==
    IF \E k \in 1..Len(w) : PatientAvailable(w[k], appointmentSlot)
    THEN CHOOSE k \in 1..Len(w) :
             /\ PatientAvailable(w[k], appointmentSlot)
             /\ \A h \in 1..(k - 1) : ~PatientAvailable(w[h], appointmentSlot)
    ELSE 0

RemoveFromWaitlistKeep(w, patient) == w

\* line 95
RemoveFromWaitlist(w, patient) == SelectSeq(w, LAMBDA p : p.id # patient.id)

\* lines 134-150
calculateRevenueRecovered(slot) ==
    IF Includes(timeSlot[slot], "morning") THEN 380
    ELSE IF Includes(timeSlot[slot], "afternoon") THEN 420
    ELSE IF Includes(timeSlot[slot], "evening") THEN 350
    ELSE IF Includes(timeSlot[slot], "emergency") THEN 580
    ELSE 400

\* The patients handed to addToWaitlist.
NewPatients ==
    { [preferredTimes |-> <<"afternoon">>, priority |-> "emergency"],
      [preferredTimes |-> <<"morning">>, priority |-> "new_patient"],
      [preferredTimes |-> <<"Morning", "afternoon">>, priority |-> "regular"] }

\* The calls made and clock advances seen so far.
WaitlistOps ==
    hcCalls + (wlNextUid - (Len(InitialWaitlist) + 1)) + (wlClock - StartClock)

\* lines 62-98: the call up to its first await, or to its return when
\* autoFill is off or no entry is available
HandleCancellationBegin ==
    \E slot \in Slots :
        LET sortedWaitlist == IF autoFill THEN SortWaitlist(waitlist) ELSE waitlist
            k == IF autoFill THEN FirstAvailable(sortedWaitlist, slot) ELSE 0
        IN  /\ WaitlistOps < MaxWaitlistOps
            /\ hcCalls' = hcCalls + 1
            /\ hcDecision' =
                   [slot |-> slot, before |-> waitlist, filled |-> k # 0,
                    patient |-> IF k = 0 THEN <<>> ELSE <<sortedWaitlist[k]>>]
            /\ IF k = 0
               THEN /\ waitlist' = sortedWaitlist
                    /\ UNCHANGED hcPending
               ELSE /\ waitlist' = RemoveFromWaitlist(sortedWaitlist, sortedWaitlist[k])
                    /\ hcPending' = Append(hcPending,
                           [slot |-> slot, patient |-> sortedWaitlist[k]])
            /\ UNCHANGED <<wlClock, wlNextUid, hcReturned>>
            /\ UNCHANGED <<triageVars, bookingVars, recallVars, dentalVars, shieldVars, vapiVars,
                 airtableVars,
                 messageVars,
                 integrationVars,
                 errorLogVars,
                 boundaryVars,
                 initVars,
                 emergencyVars,
                 baseVars>>

\* lines 98-110: the oldest suspended call resumes and returns its result
HandleCancellationResume ==
    /\ Len(hcPending) > 0
    /\ hcReturned' = Append(hcReturned,
           [filled |-> TRUE, patient |-> Head(hcPending).patient,
            revenueRecovered |-> calculateRevenueRecovered(Head(hcPending).slot)])
    /\ hcPending' = Tail(hcPending)
    /\ UNCHANGED <<waitlist, wlClock, wlNextUid, hcCalls, hcDecision>>
    /\ UNCHANGED <<triageVars, bookingVars, recallVars, dentalVars, shieldVars, vapiVars,
                 airtableVars,
                 messageVars,
                 integrationVars,
                 errorLogVars,
                 boundaryVars,
                 initVars,
                 emergencyVars,
                 baseVars>>

\* lines 175-184
AddToWaitlist ==
    \E patient \in NewPatients :
        /\ WaitlistOps < MaxWaitlistOps
        /\ waitlist' = Append(waitlist,
               [uid |-> wlNextUid, id |-> ToString(wlClock),
                preferredTimes |-> patient.preferredTimes,
                priority |-> patient.priority, addedAt |-> wlClock])
        /\ wlNextUid' = wlNextUid + 1
        /\ UNCHANGED <<wlClock, hcPending, hcCalls, hcDecision, hcReturned>>
        /\ UNCHANGED <<triageVars, bookingVars, recallVars, dentalVars, shieldVars, vapiVars,
                 airtableVars,
                 messageVars,
                 integrationVars,
                 errorLogVars,
                 boundaryVars,
                 initVars,
                 emergencyVars,
                 baseVars>>

\* time passes
WaitlistTick ==
    /\ WaitlistOps < MaxWaitlistOps
    /\ wlClock' = wlClock + 1
    /\ UNCHANGED <<waitlist, wlNextUid, hcPending, hcCalls, hcDecision, hcReturned>>
    /\ UNCHANGED <<triageVars, bookingVars, recallVars, dentalVars, shieldVars, vapiVars,
                 airtableVars,
                 messageVars,
                 integrationVars,
                 errorLogVars,
                 boundaryVars,
                 initVars,
                 emergencyVars,
                 baseVars>>

NoDecision == [slot |-> "", before |-> <<>>, filled |-> FALSE, patient |-> <<>>]

InitWaitlist ==
    /\ waitlist = InitialWaitlist
    /\ wlClock = StartClock
    /\ wlNextUid = Len(InitialWaitlist) + 1
    /\ hcPending = <<>>
    /\ hcCalls = 0
    /\ hcDecision = NoDecision
    /\ hcReturned = <<>>


(***************************************************************************)
(* JavaScript values and dates.                                            *)
(* A number-or-undefined value is a record; a Date is its validity and its *)
(* local calendar day, counted from 1970-01-01 as ECMAScript's MakeDay     *)
(* does.  getMonth and setMonth work on the local calendar fields, and     *)
(* setMonth keeps the time of day, which is therefore left out.            *)
(***************************************************************************)
Num(n) == [type |-> "number", value |-> n]
Undefined == [type |-> "undefined", value |-> 0]

\* The names every plain object inherits from Object.prototype: obj[name]
\* is a function (for __proto__ the prototype object), never undefined.
ObjectPrototypeKeys ==
    { "constructor", "toString", "toLocaleString", "valueOf", "hasOwnProperty",
      "isPrototypeOf", "propertyIsEnumerable", "__proto__", "__defineGetter__",
      "__defineSetter__", "__lookupGetter__", "__lookupSetter__" }

\* String.prototype.trim
RECURSIVE Trim(_)
Trim(s) ==
    IF Len(s) = 0 THEN s
    ELSE IF CharAt(s, 1) = " " THEN Trim(SubSeq(s, 2, Len(s)))
    ELSE IF CharAt(s, Len(s)) = " " THEN Trim(SubSeq(s, 1, Len(s) - 1))
    ELSE s

InLeapYear(y) == (y % 4 = 0 /\ y % 100 # 0) \/ y % 400 = 0

DaysInMonth(y, mn) ==
    IF mn = 1 THEN (IF InLeapYear(y) THEN 29 ELSE 28)
    ELSE IF mn \in {3, 5, 8, 10} THEN 30 ELSE 31

\* ECMAScript DayFromYear
DayFromYear(y) ==
    365 * (y - 1970) + ((y - 1969) \div 4) - ((y - 1901) \div 100) + ((y - 1601) \div 400)

RECURSIVE DaysBeforeMonth(_, _)
DaysBeforeMonth(y, mn) ==
    IF mn = 0 THEN 0 ELSE DaysBeforeMonth(y, mn - 1) + DaysInMonth(y, mn - 1)

\* ECMAScript MakeDay(year, month, date): month may exceed 11 and date may
\* exceed the length of the month
MakeDay(year, month, date) ==
    LET ym == year + (month \div 12)
        mn == month % 12
    IN  DayFromYear(ym) + DaysBeforeMonth(ym, mn) + date - 1

YearFromDay(t) == CHOOSE y \in 1800..2200 : DayFromYear(y) <= t /\ t < DayFromYear(y + 1)

\* Date.prototype.getMonth
MonthFromDay(t) ==
    LET y == YearFromDay(t)
        dayInYear == t - DayFromYear(y)
    IN  CHOOSE mn \in 0..11 :
            /\ DaysBeforeMonth(y, mn) <= dayInYear
            /\ dayInYear < DaysBeforeMonth(y, mn) + DaysInMonth(y, mn)

\* Date.prototype.getDate
DateFromDay(t) ==
    t - DayFromYear(YearFromDay(t)) - DaysBeforeMonth(YearFromDay(t), MonthFromDay(t)) + 1

InvalidDate == [valid |-> FALSE, day |-> 0]
LocalDate(y, mn, d) == [valid |-> TRUE, day |-> MakeDay(y, mn, d)]

\* Date.prototype.setMonth(getMonth() + months): a months value that is not a
\* number makes the sum NaN and the date an Invalid Date
SetMonthAdvanced(date, months) ==
    IF ~date.valid \/ months.type # "number" THEN InvalidDate
    ELSE [valid |-> TRUE,
          day |-> MakeDay(YearFromDay(date.day),
                          MonthFromDay(date.day) + months.value,
                          DateFromDay(date.day))]

(***************************************************************************)
(* RecallAutomator (src/src/services/recallAutomator.ts)                   *)
(***************************************************************************)
RecallConfigKeys == { "cleaning", "crown", "implant", "periodontal", "filling", "extraction" }

\* lines 21-58
recallConfigs ==
    [ p \in RecallConfigKeys |->
        CASE p = "cleaning" ->
               [interval |-> Num(6), autoBook |-> TRUE,
                reminderDays |-> <<30, 14, 7, 1>>, priority |-> "medium"]
          [] p = "crown" ->
               [interval |-> Num(12), autoBook |-> FALSE,
                reminderDays |-> <<60, 30, 14>>, priority |-> "low"]
          [] p = "implant" ->
               [interval |-> Num(24), autoBook |-> TRUE,
                reminderDays |-> <<90, 60, 30, 14>>, priority |-> "high"]
          [] p = "periodontal" ->
               [interval |-> Num(3), autoBook |-> TRUE,
                reminderDays |-> <<14, 7, 3, 1>>, priority |-> "high"]
          [] p = "filling" ->
               [interval |-> Num(24), autoBook |-> FALSE,
                reminderDays |-> <<60, 30, 14>>, priority |-> "low"]
          [] p = "extraction" ->
               [interval |-> Num(1), autoBook |-> TRUE,
                reminderDays |-> <<7, 3, 1>>, priority |-> "high"] ]

\* lines 108-113: the object literal used when the lookup is falsy
DefaultRecallConfig ==
    [interval |-> Num(6), autoBook |-> FALSE,
     reminderDays |-> <<30, 14, 7>>, priority |-> "medium"]

\* A member inherited from Object.prototype: truthy, and none of the
\* RecallConfig properties is defined on it.
InheritedMember ==
    [interval |-> Undefined, autoBook |-> FALSE, reminderDays |-> <<>>,
     priority |-> "undefined"]

\* lines 107-114: this.recallConfigs[procedure] || { interval: 6, ... }
getRecallConfig(procedure) ==
    IF procedure \in RecallConfigKeys THEN recallConfigs[procedure]
    ELSE IF procedure \in ObjectPrototypeKeys THEN InheritedMember
    ELSE DefaultRecallConfig

\* lines 60-105
InitialRecalls ==
    << [id |-> "1", lastVisit |-> LocalDate(2024, 1, 15), procedure |-> "cleaning",
        nextDue |-> LocalDate(2024, 7, 15), status |-> "overdue",
        contactAttempts |-> 2, preferredContact |-> "sms", estimatedRevenue |-> 180],
       [id |-> "2", lastVisit |-> LocalDate(2024, 0, 20), procedure |-> "crown",
        nextDue |-> LocalDate(2025, 0, 20), status |-> "due",
        contactAttempts |-> 0, preferredContact |-> "email", estimatedRevenue |-> 1200],
       [id |-> "3", lastVisit |-> LocalDate(2023, 11, 10), procedure |-> "periodontal",
        nextDue |-> LocalDate(2024, 2, 10), status |-> "overdue",
        contactAttempts |-> 3, preferredContact |-> "call", estimatedRevenue |-> 350],
       [id |-> "4", lastVisit |-> LocalDate(2024, 6, 1), procedure |-> "cleaning",
        nextDue |-> LocalDate(2025, 0, 1), status |-> "due",
        contactAttempts |-> 0, preferredContact |-> "sms", estimatedRevenue |-> 180] >>

\* lines 295-309: the recall addPatientRecall builds; estimatedRevenue 0
\* stands for an omitted (or zero) estimate
NewRecall(patientData, now) ==
    [id |-> ToString(now),
     lastVisit |-> patientData.lastVisit,
     procedure |-> patientData.procedure,
     nextDue |-> SetMonthAdvanced(patientData.lastVisit,
                                  getRecallConfig(patientData.procedure).interval),
     status |-> "due",
     contactAttempts |-> 0,
     preferredContact |-> patientData.preferredContact,
     estimatedRevenue |-> IF patientData.estimatedRevenue = 0 THEN 200
                          ELSE patientData.estimatedRevenue]

\* The procedure names handed to the recall lookups.
Procedures ==
    { "cleaning", "crown", "periodontal", "extraction", "surgery",
      "whitening", " Crown ", "constructor", "" }

\* The patients handed to addPatientRecall (months count from 0).
RecallPatients ==
    { [procedure |-> "cleaning", lastVisit |-> LocalDate(2024, 1, 15),
       preferredContact |-> "sms", estimatedRevenue |-> 0],
      [procedure |-> "cleaning", lastVisit |-> LocalDate(2024, 2, 20),
       preferredContact |-> "call", estimatedRevenue |-> 0],
      [procedure |-> "crown", lastVisit |-> LocalDate(2024, 0, 31),
       preferredContact |-> "email", estimatedRevenue |-> 1200],
      [procedure |-> "extraction", lastVisit |-> LocalDate(2024, 0, 31),
       preferredContact |-> "call", estimatedRevenue |-> 0],
      [procedure |-> "periodontal", lastVisit |-> LocalDate(2023, 7, 31),
       preferredContact |-> "sms", estimatedRevenue |-> 350],
      [procedure |-> "whitening", lastVisit |-> LocalDate(2023, 7, 31),
       preferredContact |-> "sms", estimatedRevenue |-> 0],
      [procedure |-> "constructor", lastVisit |-> LocalDate(2024, 1, 15),
       preferredContact |-> "sms", estimatedRevenue |-> 180] }

(***************************************************************************)
(* DentalService.scheduleRecall (src/src/services/dentalService.ts)        *)
(***************************************************************************)
maxInitAttempts == 3

\* src/unnamed/part_001 lines 67-77
RecallIntervalKeys ==
    { "cleaning", "perio", "implant", "crown", "filling", "surgery",
      "consultation", "periodontal" }

recallIntervals ==
    [ p \in RecallIntervalKeys |->
        CASE p = "cleaning" -> 6
          [] p = "perio" -> 3
          [] p = "implant" -> 12
          [] p = "crown" -> 12
          [] p = "filling" -> 24
          [] p = "surgery" -> 1
          [] p = "consultation" -> 12
          [] p = "periodontal" -> 3 ]

\* lines 19-40: the validation of the imported configuration objects.  The
\* objects of src/unnamed/part_001 pass it; configOk is false in a build
\* whose configuration module lacks one of them.
configValid(st) == st.configOk

\* logError without the slice of lines 71-73
logErrorKeepAll(st, context, error, severity) ==
    [st EXCEPT !.logged = @ + 1,
               !.errorLog = Append(@, [timestamp |-> st.logged + 1, error |-> error,
                                       context |-> context, severity |-> severity])]

\* lines 60-73; the timestamp of an entry is its rank among all the entries
\* ever logged
logError(st, context, error, severity) ==
    LET log == Append(st.errorLog,
                      [timestamp |-> st.logged + 1, error |-> error,
                       context |-> context, severity |-> severity])
    IN  [st EXCEPT !.logged = @ + 1,
                   !.errorLog =
                       IF Len(log) > 100 THEN SubSeq(log, Len(log) - 99, Len(log))
                       ELSE log]

\* initialize with a retry after every failure
initializeAlwaysRetry(st) ==
    IF st.initialized THEN [ret |-> TRUE, st |-> st]
    ELSE LET st1 == [st EXCEPT !.initializationAttempts = @ + 1]
         IN  IF configValid(st)
             THEN [ret |-> TRUE, st |-> [st1 EXCEPT !.initialized = TRUE]]
             ELSE [ret |-> FALSE,
                   st |-> [logError(st1, "Initialization failed",
                                    "procedureConfig is missing or invalid", "high")
                               EXCEPT !.retryTimers = @ + 1]]

\* lines 10-58: the value returned and the state left
initialize(st) ==
    IF st.initialized THEN [ret |-> TRUE, st |-> st]
    ELSE LET st1 == [st EXCEPT !.initializationAttempts = @ + 1]
         IN  IF configValid(st)
             THEN [ret |-> TRUE, st |-> [st1 EXCEPT !.initialized = TRUE]]
             ELSE LET st2 == logError(st1, "Initialization failed",
                                      "procedureConfig is missing or invalid", "high")
                  IN  [ret |-> FALSE,
                       st |-> IF st2.initializationAttempts < maxInitAttempts
                              THEN [st2 EXCEPT !.retryTimers = @ + 1]
                              ELSE st2]

\* JavaScript argument values: a string, or a value of another type given
\* by its source text
JsString(s) == [type |-> "string", text |-> s]
JsOther(type, text) == [type |-> type, text |-> text]
Truthy(v) ==
    CASE v.type = "string" -> v.text # ""
      [] v.type = "number" -> v.text \notin {"0", "NaN"}
      [] v.type \in {"undefined", "null"} -> FALSE
      [] OTHER -> TRUE

\* the ways a function body ends: return of a value, or an exception with
\* the message of its Error
Return(st, ret) == [threw |-> FALSE, ret |-> ret, st |-> st]
Throw(st, message) == [threw |-> TRUE, ret |-> message, st |-> st]

\* a catch clause that lets the exception pass
CatchRethrow(r, context, fallback, severity) == r

\* catch (error) { this.logError(context, error.message, severity); return
\* fallback }, lines 115-119, 191-195, 432-436, 468-472, 585-593
Catch(r, context, fallback, severity) ==
    IF r.threw THEN Return(logError(r.st, context, r.ret, severity), fallback)
    ELSE r

\* lines 83-113: the body of the try block
scheduleRecallTry(st, procedure) ==
    LET init == IF st.initialized THEN [ret |-> TRUE, st |-> st] ELSE initialize(st)
        normalizedProcedure == Trim(ToLowerCase(procedure.text))
    IN  IF ~init.ret THEN Throw(init.st, "Service not properly initialized")
        ELSE IF ~Truthy(procedure) \/ procedure.type # "string"
        THEN Throw(init.st, "Invalid procedure parameter: must be a non-empty string")
        ELSE IF Len(normalizedProcedure) = 0
        THEN Throw(init.st, "Procedure cannot be empty")
        ELSE IF normalizedProcedure \in RecallIntervalKeys
        THEN IF recallIntervals[normalizedProcedure] <= 0
             THEN Throw(init.st, "Invalid interval for procedure " \o procedure.text)
             ELSE Return(init.st, recallIntervals[normalizedProcedure])
        ELSE IF normalizedProcedure \in ObjectPrototypeKeys
        THEN Throw(init.st, "Invalid interval for procedure " \o procedure.text)
        ELSE Return(logError(init.st, "scheduleRecall",
                             "Unknown procedure: " \o procedure.text, "low"), 6)

\* lines 81-120: whether it threw, the value returned and the state left
scheduleRecall(st, procedure) ==
    Catch(scheduleRecallTry(st, procedure), "scheduleRecall", 6, "medium")

\* src/unnamed/part_001 lines 90-96: the emergencyKeywords that DentalService
\* imports
configEmergencyKeywords ==
    << "pain", "emergency", "broken", "swollen", "bleeding",
       "urgent", "hurt", "ache", "throbbing", "severe",
       "unbearable", "excruciating", "can't sleep", "can't eat",
       "knocked out", "chipped", "cracked", "loose tooth",
       "abscess", "infection", "pus", "fever" >>

\* lines 223-232: the row of the matrix for character c of str2, from the
\* row before it
RECURSIVE LevenshteinRow(_, _, _, _)
LevenshteinRow(prev, str1, c, row) ==
    LET i == Len(row)
    IN  IF i > Len(str1) THEN row
        ELSE IF i = 0 THEN LevenshteinRow(prev, str1, c, <<prev[1] + 1>>)
        ELSE LevenshteinRow(prev, str1, c,
                 Append(row, Min(Min(row[i] + 1, prev[i + 1] + 1),
                                 prev[i] + (IF CharAt(str1, i) = c THEN 0 ELSE 1))))

RECURSIVE LevenshteinRows(_, _, _, _)
LevenshteinRows(prev, str1, str2, j) ==
    IF j > Len(str2) THEN prev
    ELSE LevenshteinRows(LevenshteinRow(prev, str1, CharAt(str2, j), <<>>), str1, str2, j + 1)

\* lines 217-235
levenshteinDistance(str1, str2) ==
    LevenshteinRows([i \in 1..(Len(str1) + 1) |-> i - 1], str1, str2, 1)[Len(str1) + 1]

\* lines 199-214: the similarity as the fraction num / den
fuzzyMatch(str1, str2) ==
    IF str1 = "" \/ str2 = "" THEN [num |-> 0, den |-> 1]
    ELSE LET longer == IF Len(str1) > Len(str2) THEN str1 ELSE str2
             shorter == IF Len(str1) > Len(str2) THEN str2 ELSE str1
         IN  [num |-> Len(longer) - levenshteinDistance(longer, shorter),
              den |-> Len(longer)]

\* fuzzyMatch(...) > percent / 100
FuzzyAbove(str1, str2, percent) ==
    fuzzyMatch(str1, str2).num * 100 > percent * fuzzyMatch(str1, str2).den

\* lines 146-166: the filter over the emergency keywords
foundKeywords(cleanUtterance) ==
    LET Matches(keyword) ==
            \/ Includes(cleanUtterance, ToLowerCase(keyword))
            \/ FuzzyAbove(cleanUtterance, ToLowerCase(keyword), 80)
    IN  SelectSeq(configEmergencyKeywords, Matches)

\* The strings said to the service in the model
UtteranceTexts ==
    { "", "   ", "I have Severe pain", "throbing", "I need a Cleaning", "consultaton",
      "hello" }

\* Further texts the voice assistant hears
SpokenTexts == { "my number is 555-123-4567", "How can I help you today?",
                 "Is there anything else?" }

CleanUtterances == { ToLowerCase(Trim(t)) : t \in UtteranceTexts \cup SpokenTexts }

\* foundKeywords of the utterances of the model, computed once
foundKeywordsOf == [u \in CleanUtterances |-> foundKeywords(u)]

keywordMatches(cleanUtterance) ==
    IF cleanUtterance \in CleanUtterances THEN foundKeywordsOf[cleanUtterance]
    ELSE foundKeywords(cleanUtterance)

\* line 252
highUrgencyKeywords == << "unbearable", "excruciating", "severe", "can't sleep", "bleeding" >>

\* lines 253-255
urgencyLevel(keywords) ==
    IF \E k \in 1..Len(keywords) : SomeIncluded(keywords[k], highUrgencyKeywords)
    THEN "high" ELSE "medium"

\* the appointment time with the adjustment to 08:00 of the same day
emergencySlotSameDay(keywords, hour) ==
    LET hoursToAdd == IF urgencyLevel(keywords) = "high" THEN 2 ELSE 6
        slot == [day |-> (hour + hoursToAdd) \div 24, hour |-> (hour + hoursToAdd) % 24]
    IN  IF slot.hour < 8 \/ slot.hour > 20 THEN [day |-> slot.day, hour |-> 8] ELSE slot

\* lines 244-272: the appointment time, as the days after today and the
\* hour of the day, for a call made at the given hour of the day
emergencySlot(keywords, hour) ==
    LET hoursToAdd == IF urgencyLevel(keywords) = "high" THEN 2 ELSE 6
        slot == [day |-> (hour + hoursToAdd) \div 24, hour |-> (hour + hoursToAdd) % 24]
    IN  IF slot.hour < 8 \/ slot.hour > 20
        THEN [day |-> slot.day + 1, hour |-> 8]
        ELSE slot

\* lines 301-324: the number of instructions
generateEmergencyInstructions(keywords) ==
    LET Some(word) == \E k \in 1..Len(keywords) : Includes(keywords[k], word)
    IN  (IF Some("pain") THEN 2 ELSE 0) + (IF Some("swollen") THEN 2 ELSE 0)
        + (IF Some("bleeding") THEN 2 ELSE 0) + 2

\* lines 274-281
appointmentDetails(keywords, hour) ==
    [appointmentTime |-> emergencySlot(keywords, hour),
     urgencyLevel |-> urgencyLevel(keywords),
     symptoms |-> keywords,
     estimatedDuration |-> 60,
     priority |-> "emergency",
     patientInstructions |-> generateEmergencyInstructions(keywords)]

\* The integrations found on window (dentalPMS.notify, smsService.send):
\* absent or working, which leave the service in the same state, or throwing
Integrations == { "ok", "throws" }

\* lines 652-674: pms.notify may throw
notifyPracticeManagementSystem(st, pms) ==
    IF pms = "throws"
    THEN logError(st, "PMS notification", "Unknown error in PMS notification", "medium")
    ELSE st

\* lines 327-370 and 677-710: smsService.send may throw; without the service
\* the message is queued in localStorage (lines 713-732)
sendEmergencySMS(st, sms) ==
    IF sms = "throws"
    THEN logError(st, "SMS sending", "Unknown error in SMS sending", "medium")
    ELSE st

\* lines 125-189: the body of the try block
handleEmergencyTry(st, utteranceArg, hour, pms, sms) ==
    LET init == IF st.initialized THEN [ret |-> TRUE, st |-> st] ELSE initialize(st)
        cleanUtterance == ToLowerCase(Trim(utteranceArg.text))
    IN  IF ~init.ret THEN Throw(init.st, "Service not properly initialized")
        ELSE IF ~Truthy(utteranceArg) \/ utteranceArg.type # "string"
        THEN Return(logError(init.st, "handleEmergency",
                             "Invalid utterance parameter: must be a non-empty string",
                             "medium"), FALSE)
        ELSE IF Len(cleanUtterance) = 0
        THEN Return(logError(init.st, "handleEmergency", "Empty utterance provided", "low"),
                    FALSE)
        ELSE IF keywordMatches(cleanUtterance) # <<>>
        THEN Return(sendEmergencySMS(notifyPracticeManagementSystem(init.st, pms), sms),
                    TRUE)
        ELSE Return(init.st, FALSE)

\* lines 123-196
handleEmergency(st, utteranceArg, hour, pms, sms) ==
    Catch(handleEmergencyTry(st, utteranceArg, hour, pms, sms), "handleEmergency", FALSE, "high")

JsNull == JsOther("null", "null")

\* src/unnamed/part_001 lines 2-52: the keys of procedureConfig in the order
\* of Object.keys, and the keywords of each
procedureNames ==
    << "cleaning", "emergency", "surgery", "consultation", "filling", "crown",
       "periodontal" >>

procedureKeywords ==
    << <<"cleaning", "hygiene", "polish", "scale">>,
       <<"pain", "broken", "urgent", "swollen", "bleeding", "hurt", "ache">>,
       <<"surgery", "extraction", "implant", "oral surgery">>,
       <<"consultation", "checkup", "exam", "evaluation">>,
       <<"filling", "cavity", "restoration", "decay">>,
       <<"crown", "cap", "cover", "restoration">>,
       <<"gum", "periodontal", "deep cleaning", "scaling", "root planing">> >>

\* lines 393-397 and 400-428: the index of the first procedure that matches,
\* 0 when there is none
FirstProcedure(Matches(_)) ==
    IF \E k \in 1..Len(procedureNames) : Matches(k)
    THEN CHOOSE k \in 1..Len(procedureNames) :
             Matches(k) /\ \A j \in 1..(k - 1) : ~Matches(j)
    ELSE 0

\* lines 393-428: the direct matches come before the keyword matches
matchedProcedure(cleanUtterance) ==
    LET Direct(k) == Includes(cleanUtterance, ToLowerCase(procedureNames[k]))
        ByKeyword(k) ==
            \E w \in 1..Len(procedureKeywords[k]) :
                \/ Includes(cleanUtterance, ToLowerCase(procedureKeywords[k][w]))
                \/ FuzzyAbove(cleanUtterance, ToLowerCase(procedureKeywords[k][w]), 85)
    IN  IF FirstProcedure(Direct) # 0 THEN FirstProcedure(Direct)
        ELSE FirstProcedure(ByKeyword)

\* matchedProcedure of the utterances of the model, computed once
matchedProcedureOf == [u \in CleanUtterances |-> matchedProcedure(u)]

procedureMatch(cleanUtterance) ==
    IF cleanUtterance \in CleanUtterances THEN matchedProcedureOf[cleanUtterance]
    ELSE matchedProcedure(cleanUtterance)

\* lines 375-430: the body of the try block
identifyProcedureTry(st, utteranceArg) ==
    LET cleanUtterance == ToLowerCase(Trim(utteranceArg.text))
    IN  IF ~Truthy(utteranceArg) \/ utteranceArg.type # "string"
        THEN Return(logError(st, "identifyProcedure", "Invalid utterance parameter", "low"),
                    JsNull)
        ELSE IF Len(cleanUtterance) = 0 THEN Return(st, JsNull)
        ELSE IF ~configValid(st)
        THEN Return(logError(st, "identifyProcedure",
                             "Procedure configuration not available", "medium"), JsNull)
        ELSE IF procedureMatch(cleanUtterance) # 0
        THEN Return(st, JsString(procedureNames[procedureMatch(cleanUtterance)]))
        ELSE Return(st, JsNull)

\* lines 373-437
identifyProcedure(st, utteranceArg) ==
    Catch(identifyProcedureTry(st, utteranceArg), "identifyProcedure", JsNull, "medium")

\* lines 442-466: the body of the try block; the configuration object found
\* is given by its name
getProcedureInfoTry(st, procedure) ==
    LET normalizedProcedure == Trim(ToLowerCase(procedure.text))
    IN  IF ~Truthy(procedure) \/ procedure.type # "string"
        THEN Return(logError(st, "getProcedureInfo", "Invalid procedure parameter", "low"),
                    JsNull)
        ELSE IF ~configValid(st)
        THEN Return(logError(st, "getProcedureInfo",
                             "Procedure configuration not available", "medium"), JsNull)
        ELSE IF \E k \in 1..Len(procedureNames) : procedureNames[k] = normalizedProcedure
        THEN Return(st, JsOther("object", "procedureConfig." \o normalizedProcedure))
        ELSE IF normalizedProcedure = "__proto__"
        THEN Return(st, JsOther("object", "Object.prototype"))
        ELSE IF normalizedProcedure \in ObjectPrototypeKeys
        THEN Return(logError(st, "getProcedureInfo",
                             "Invalid config for procedure: " \o procedure.text, "medium"),
                    JsNull)
        ELSE Return(logError(st, "getProcedureInfo",
                             "Procedure not found: " \o procedure.text, "low"), JsNull)

\* lines 440-473
getProcedureInfo(st, procedure) ==
    Catch(getProcedureInfoTry(st, procedure), "getProcedureInfo", JsNull, "medium")

NoCall == [op |-> "none", procedure |-> "", interval |-> Undefined]

\* RecallAutomator.getRecallConfig(procedure), lines 107-114
GetRecallConfig ==
    \E procedure \in Procedures :
        /\ rcOps < MaxRecallOps
        /\ rcOps' = rcOps + 1
        /\ rcCall' = [op |-> "getRecallConfig", procedure |-> procedure,
                      interval |-> getRecallConfig(procedure).interval]
        /\ UNCHANGED <<patientRecalls, rcNow, rcLists, dentalVars>>
        /\ UNCHANGED <<triageVars, bookingVars, waitlistVars, shieldVars, vapiVars,
                 airtableVars,
                 messageVars,
                 integrationVars,
                 errorLogVars,
                 boundaryVars,
                 initVars,
                 emergencyVars,
                 baseVars>>

\* RecallAutomator.addPatientRecall(patientData), lines 288-313
AddPatientRecall ==
    \E patientData \in RecallPatients :
        /\ rcOps < MaxRecallOps
        /\ rcOps' = rcOps + 1
        /\ patientRecalls' = Append(patientRecalls, NewRecall(patientData, rcNow))
        /\ rcCall' = [op |-> "addPatientRecall", procedure |-> patientData.procedure,
                      interval |-> getRecallConfig(patientData.procedure).interval]
        /\ UNCHANGED <<rcNow, rcLists, dentalVars>>
        /\ UNCHANGED <<triageVars, bookingVars, waitlistVars, shieldVars, vapiVars,
                 airtableVars,
                 messageVars,
                 integrationVars,
                 errorLogVars,
                 boundaryVars,
                 initVars,
                 emergencyVars,
                 baseVars>>

\* DentalService.scheduleRecall(procedure), lines 81-120
ScheduleRecall ==
    \E procedure \in Procedures :
        LET r == scheduleRecall(ds, JsString(procedure)) IN
        /\ rcOps < MaxRecallOps
        /\ rcOps' = rcOps + 1
        /\ ds' = r.st
        /\ rcCall' = [op |-> "scheduleRecall", procedure |-> procedure,
                      interval |-> Num(r.ret)]
        /\ UNCHANGED <<patientRecalls, rcNow, rcLists, dsCall, dsOps>>
        /\ UNCHANGED <<triageVars, bookingVars, waitlistVars, shieldVars, vapiVars,
                 airtableVars,
                 messageVars,
                 integrationVars,
                 errorLogVars,
                 boundaryVars,
                 initVars,
                 emergencyVars,
                 baseVars>>

\* A reading of new Date(): the day, and whether the time of day is later
\* than that of the nextDue dates (all dates of the recalls have the same
\* time of day, which setMonth keeps)
Reading(day, later) == [day |-> day, later |-> later]

\* a recall that is due only while its date is not past
isDueNotPast(recall, today) ==
    recall.nextDue.valid /\ today.day - recall.nextDue.day \in -30..0

\* lines 118-121: daysDiff >= -30; a comparison with the NaN of an Invalid
\* Date is false
isDue(recall, today) ==
    recall.nextDue.valid /\ today.day - recall.nextDue.day >= -30

\* lines 126-128: nextDue.getTime() < today.getTime()
isOverdue(recall, today) ==
    /\ recall.nextDue.valid
    /\ \/ recall.nextDue.day < today.day
       \/ recall.nextDue.day = today.day /\ today.later

\* Array.prototype.sort((a, b) => a.nextDue.getTime() - b.nextDue.getTime()),
\* which is stable, on recalls with valid dates
RECURSIVE SortByNextDue(_)
SortByNextDue(recalls) ==
    IF Len(recalls) = 0 THEN <<>>
    ELSE LET first == CHOOSE i \in 1..Len(recalls) :
                          /\ \A j \in 1..Len(recalls) :
                                 recalls[i].nextDue.day <= recalls[j].nextDue.day
                          /\ \A j \in 1..(i - 1) :
                                 recalls[j].nextDue.day # recalls[i].nextDue.day
         IN  <<recalls[first]>> \o SortByNextDue(RemoveAt(recalls, first))

\* lines 116-122
getDueRecalls(recalls, today) ==
    LET Due(recall) == isDue(recall, today)
    IN  SortByNextDue(SelectSeq(recalls, Due))

\* lines 124-129
getOverdueRecalls(recalls, today) ==
    LET Overdue(recall) == isOverdue(recall, today)
    IN  SortByNextDue(SelectSeq(recalls, Overdue))

\* lines 258-286: the two lists, read one after the other, and their counts
getRecallStats(recalls, today, afterwards) ==
    [due |-> getDueRecalls(recalls, today),
     overdue |-> getOverdueRecalls(recalls, afterwards),
     totalDue |-> Len(getDueRecalls(recalls, today)),
     totalOverdue |-> Len(getOverdueRecalls(recalls, afterwards))]

NoLists == [op |-> "none", due |-> <<>>, overdue |-> <<>>, totalDue |-> 0,
            totalOverdue |-> 0, later |-> FALSE]

RecallListed(op, lists, later) ==
    /\ rcOps < MaxRecallOps
    /\ rcOps' = rcOps + 1
    /\ rcLists' = [op |-> op, due |-> lists.due, overdue |-> lists.overdue,
                   totalDue |-> lists.totalDue, totalOverdue |-> lists.totalOverdue,
                   later |-> later]
    /\ UNCHANGED <<patientRecalls, rcNow, rcCall, dentalVars>>
    /\ UNCHANGED <<triageVars, bookingVars, waitlistVars, shieldVars, vapiVars,
                   airtableVars,
                 messageVars,
                 integrationVars,
                 errorLogVars,
                 boundaryVars,
                 initVars,
                 emergencyVars,
                 baseVars>>

\* RecallAutomator.getDueRecalls(), lines 116-122
GetDueRecalls ==
    \E later \in BOOLEAN :
        RecallListed("getDueRecalls",
                     [NoLists EXCEPT !.due = getDueRecalls(patientRecalls, Reading(rcNow, later))],
                     later)

\* RecallAutomator.getOverdueRecalls(), lines 124-129
GetOverdueRecalls ==
    \E later \in BOOLEAN :
        RecallListed("getOverdueRecalls",
                     [NoLists EXCEPT
                          !.overdue = getOverdueRecalls(patientRecalls, Reading(rcNow, later))],
                     later)

\* RecallAutomator.getRecallStats(), lines 258-286: the second reading of the
\* clock is not before the first
GetRecallStats ==
    \E later \in BOOLEAN, afterwards \in BOOLEAN :
        /\ later => afterwards
        /\ RecallListed("getRecallStats",
                        getRecallStats(patientRecalls, Reading(rcNow, later),
                                       Reading(rcNow, afterwards)),
                        afterwards)

\* a day passes
RecallTick ==
    /\ rcOps < MaxRecallOps
    /\ rcOps' = rcOps + 1
    /\ rcNow' = rcNow + 1
    /\ UNCHANGED <<patientRecalls, rcCall, rcLists, dentalVars>>
    /\ UNCHANGED <<triageVars, bookingVars, waitlistVars, shieldVars, vapiVars,
                 airtableVars,
                 messageVars,
                 integrationVars,
                 errorLogVars,
                 boundaryVars,
                 initVars,
                 emergencyVars,
                 baseVars>>

InitRecall ==
    /\ patientRecalls = InitialRecalls
    /\ rcNow = MakeDay(2024, 8, 1)
    /\ rcCall = NoCall
    /\ rcOps = 0
    /\ rcLists = NoLists

\* lines 4-7
InitDental ==
    /\ ds = [initialized |-> FALSE, initializationAttempts |-> 0, errorLog |-> <<>>,
             retryTimers |-> 0, configOk |-> TRUE, logged |-> 0]
    /\ dsCall = [op |-> "none", args |-> <<>>, threw |-> FALSE, ret |-> FALSE]
    /\ dsOps = 0

(***************************************************************************)
(* Regular expressions.                                                    *)
(* A pattern is a sequence of items: a word-boundary assertion, or a       *)
(* character class with a greedy repetition count min..max (max -1: no     *)
(* upper limit).  Matching backtracks as the JavaScript engine does.       *)
(***************************************************************************)
CharsOf(str) == { CharAt(str, i) : i \in 1..Len(str) }

Digits == CharsOf("0123456789")
Upper == CharsOf(UpperChars)
Lower == CharsOf(LowerChars)
WordChars == Digits \cup Upper \cup Lower \cup {"_"}
Space == {" ", "\t", "\n", "\r", "\f"}

Boundary == [kind |-> "b", chars |-> {}, min |-> 0, max |-> 0]
Rep(chars, min, max) == [kind |-> "c", chars |-> chars, min |-> min, max |-> max]
Lit(c) == Rep({c}, 1, 1)

IsWordAt(s, i) == i >= 1 /\ i <= Len(s) /\ CharAt(s, i) \in WordChars

\* \b at the position before character i
AtBoundary(s, i) == IsWordAt(s, i - 1) # IsWordAt(s, i)

\* the number of characters from position i on that lie in chars, at most max
RECURSIVE RunLength(_, _, _, _)
RunLength(s, i, chars, max) ==
    IF max = 0 \/ i > Len(s) \/ CharAt(s, i) \notin chars THEN 0
    ELSE 1 + RunLength(s, i + 1, chars, max - 1)

\* The position after the match of items k.. of pat that starts at position
\* i of s, 0 when there is none; TryCount gives item k n characters and,
\* when the rest does not match, one fewer.
RECURSIVE MatchFrom(_, _, _, _)
RECURSIVE TryCount(_, _, _, _, _)
MatchFrom(pat, k, s, i) ==
    IF k > Len(pat) THEN i
    ELSE IF pat[k].kind = "b"
         THEN IF AtBoundary(s, i) THEN MatchFrom(pat, k + 1, s, i) ELSE 0
         ELSE TryCount(pat, k, s, i, RunLength(s, i, pat[k].chars, pat[k].max))

TryCount(pat, k, s, i, n) ==
    IF n < pat[k].min THEN 0
    ELSE LET end == MatchFrom(pat, k + 1, s, i + n)
         IN  IF end # 0 THEN end ELSE TryCount(pat, k, s, i, n - 1)

\* String.prototype.match with a global pattern: the number of matches
\* found from position i on, 0 standing for the null result
RECURSIVE MatchCount(_, _, _)
MatchCount(pat, s, i) ==
    IF i > Len(s) THEN 0
    ELSE LET end == MatchFrom(pat, 1, s, i)
         IN  IF end # 0 THEN 1 + MatchCount(pat, s, end)
             ELSE MatchCount(pat, s, i + 1)

\* String.prototype.replace with a global pattern, from position i on
RECURSIVE ReplaceAll(_, _, _, _)
ReplaceAll(pat, s, i, replace) ==
    IF i > Len(s) THEN ""
    ELSE LET end == MatchFrom(pat, 1, s, i)
         IN  IF end # 0 THEN replace \o ReplaceAll(pat, s, end, replace)
             ELSE CharAt(s, i) \o ReplaceAll(pat, s, i + 1, replace)

(***************************************************************************)
(* HIPAAShield (src/unnamed/part_006, lines 929-1014)                      *)
(***************************************************************************)
D(min, max) == Rep(Digits, min, max)
SepOpt == Rep(Space \cup {"-"}, 0, 1)
ColonOpt == Rep(Space \cup {":"}, 0, 1)

\* the rule list with the two phone rules left out
PhoneRulesMissing == << >>

\* lines 940-941
PhoneRules ==
    << [pattern |-> <<Boundary, D(3, 3), Lit("-"), D(3, 3), Lit("-"), D(4, 4), Boundary>>,
        replace |-> "[PHONE-REDACTED]"],
       [pattern |-> <<Boundary, Lit("("), D(3, 3), Lit(")"), Rep(Space, 0, 1),
                      D(3, 3), Lit("-"), D(4, 4), Boundary>>,
        replace |-> "[PHONE-REDACTED]"] >>


\* lines 930-956, in order
redactionRules ==
    << [pattern |-> <<Boundary, D(3, 3), Lit("-"), D(2, 2), Lit("-"), D(4, 4), Boundary>>,
        replace |-> "[SSN-REDACTED]"],
       [pattern |-> <<Boundary, D(9, 9), Boundary>>,
        replace |-> "[SSN-REDACTED]"],
       [pattern |-> <<Boundary, Rep(Upper, 2, 2), D(10, 10), Boundary>>,
        replace |-> "[INSURANCE-REDACTED]"],
       [pattern |-> <<Boundary, Rep(Upper, 3, 3), D(9, 9), Boundary>>,
        replace |-> "[INSURANCE-REDACTED]"] >>
    \o PhoneRules \o
    << [pattern |-> <<Boundary, D(4, 4), SepOpt, D(4, 4), SepOpt, D(4, 4), SepOpt,
                      D(4, 4), Boundary>>,
        replace |-> "[CARD-REDACTED]"],
       [pattern |-> <<Boundary,
                      Rep(Upper \cup Lower \cup Digits \cup {".", "_", "%", "+", "-"}, 1, -1),
                      Lit("@"),
                      Rep(Upper \cup Lower \cup Digits \cup {".", "-"}, 1, -1),
                      Lit("."),
                      Rep(Upper \cup Lower \cup {"|"}, 2, -1),
                      Boundary>>,
        replace |-> "[EMAIL-REDACTED]"],
       [pattern |-> <<Boundary, D(1, 2), Lit("/"), D(1, 2), Lit("/"), D(4, 4), Boundary>>,
        replace |-> "[DOB-REDACTED]"],
       [pattern |-> <<Boundary, D(1, 2), Lit("-"), D(1, 2), Lit("-"), D(4, 4), Boundary>>,
        replace |-> "[DOB-REDACTED]"],
       [pattern |-> <<Boundary, Rep({"M", "m"}, 1, 1), Rep({"R", "r"}, 1, 1),
                      Rep({"N", "n"}, 1, 1), ColonOpt, D(1, -1)>>,
        replace |-> "[MRN-REDACTED]"],
       [pattern |-> <<Boundary, Rep({"M", "m"}, 1, 1), Rep({"R", "r"}, 1, 1),
                      ColonOpt, D(1, -1)>>,
        replace |-> "[MRN-REDACTED]"] >>

\* lines 983-990
DataTypeOf(replace) ==
    IF Includes(replace, "SSN") THEN "ssn"
    ELSE IF Includes(replace, "INSURANCE") THEN "insurance"
    ELSE IF Includes(replace, "PHONE") THEN "phone"
    ELSE IF Includes(replace, "CARD") THEN "credit_card"
    ELSE IF Includes(replace, "EMAIL") THEN "email"
    ELSE IF Includes(replace, "DOB") THEN "date_of_birth"
    ELSE IF Includes(replace, "MRN") THEN "medical_record"
    ELSE "unknown"

\* lines 977-998: one turn of the forEach; the pattern is matched against
\* the original text and replaced in the text redacted so far
\* a rule that counts its matches and leaves the text as it is
ApplyRuleKeepText(acc, rule, text) ==
    [acc EXCEPT !.redactionCount = @ + MatchCount(rule.pattern, text, 1)]

\* lines 976-997: one turn of the forEach; the matches are those of the text
\* given to redactPHI, the replacement is made in the text redacted so far
ApplyRule(acc, rule, text) ==
    LET matches == MatchCount(rule.pattern, text, 1)
        dataType == DataTypeOf(rule.replace)
    IN  IF matches = 0 THEN acc
        ELSE [redactedText |-> ReplaceAll(rule.pattern, acc.redactedText, 1, rule.replace),
              redactionCount |-> acc.redactionCount + matches,
              dataTypesFound |->
                  IF \E k \in 1..Len(acc.dataTypesFound) : acc.dataTypesFound[k] = dataType
                  THEN acc.dataTypesFound
                  ELSE Append(acc.dataTypesFound, dataType)]

RECURSIVE ApplyRules(_, _, _, _)
ApplyRules(acc, rules, k, text) ==
    IF k > Len(rules) THEN acc
    ELSE ApplyRules(ApplyRule(acc, rules[k], text), rules, k + 1, text)

\* lines 967-1014: the value returned
redactPHI(text) ==
    ApplyRules([redactedText |-> text, redactionCount |-> 0, dataTypesFound |-> <<>>],
               redactionRules, 1, text)

\* lines 1000-1007: the audit entry of a call; its timestamp is left out
AuditEntry(text, result) ==
    [action |-> "phi_redaction",
     dataType |-> Join(result.dataTypesFound, ", "),
     redacted |-> result.redactionCount > 0,
     originalLength |-> Len(text),
     redactedLength |-> Len(result.redactedText)]

\* The texts handed to redactPHI: a core with something before and after.
TextCores ==
    { "555-123-4567", "123-45-6789", "(555) 123-4567", "hello",
      "AB1234567890 born 1/2/1990" }
TextPrefixes == { "", "call ", "x", "1-", "MRN ", "a@", "4111-1111-1111-" }
TextSuffixes == { "", " now", "x12", "8", "@mail.com", " or 555-123-4567", "_" }
Texts == { p \o c \o x : p \in TextPrefixes, c \in TextCores, x \in TextSuffixes }

\* redactPHI of every text, evaluated once
Redacted == [text \in Texts |-> redactPHI(text)]

\* HIPAAShield.redactPHI(text), lines 967-1014
RedactPHI ==
    \E text \in Texts :
        /\ Len(hsAuditLog) < MaxRedactions
        /\ hsText' = text
        /\ hsResult' = Redacted[text]
        /\ hsAuditLog' = Append(hsAuditLog, AuditEntry(text, Redacted[text]))
        /\ UNCHANGED <<triageVars, bookingVars, waitlistVars, recallVars, dentalVars, vapiVars,
                 airtableVars,
                 messageVars,
                 integrationVars,
                 errorLogVars,
                 boundaryVars,
                 initVars,
                 emergencyVars,
                 baseVars>>

\* line 958
InitShield ==
    /\ hsText = ""
    /\ hsResult = [redactedText |-> "", redactionCount |-> 0, dataTypesFound |-> <<>>]
    /\ hsAuditLog = <<>>

(***************************************************************************)
(* DentalService.validatePatient and the calls of the service              *)
(* (src/src/services/dentalService.ts).  The local time zone is UTC.       *)
(***************************************************************************)
\* RegExp.prototype.test for a pattern between ^ and $ whose neighbouring
\* items share no character
FullMatch(pat, s) == MatchFrom(pat, 1, s, 1) = Len(s) + 1

\* phone.replace(/\D/g, ''), line 493
RECURSIVE DigitsOnly(_)
DigitsOnly(s) ==
    IF Len(s) = 0 THEN ""
    ELSE (IF CharAt(s, 1) \in Digits THEN CharAt(s, 1) ELSE "")
         \o DigitsOnly(SubSeq(s, 2, Len(s)))

\* String.prototype.split with a one-character separator
RECURSIVE Split(_, _)
Split(s, sep) ==
    IF \E i \in 1..Len(s) : CharAt(s, i) = sep
    THEN LET i == CHOOSE j \in 1..Len(s) :
                      CharAt(s, j) = sep /\ \A k \in 1..(j - 1) : CharAt(s, k) # sep
         IN  <<SubSeq(s, 1, i - 1)>> \o Split(SubSeq(s, i + 1, Len(s)), sep)
    ELSE <<s>>

\* Number(s) for a string of digits
RECURSIVE NumberOf(_)
NumberOf(s) ==
    IF Len(s) = 0 THEN 0
    ELSE 10 * NumberOf(SubSeq(s, 1, Len(s) - 1))
         + IndexOfChar("0123456789", CharAt(s, Len(s))) - 1

StartsWith(s, prefix) == Len(s) >= Len(prefix) /\ SubSeq(s, 1, Len(prefix)) = prefix

\* lines 520-525
dobFormats ==
    << <<D(2, 2), Lit("/"), D(2, 2), Lit("/"), D(4, 4)>>,
       <<D(1, 2), Lit("/"), D(1, 2), Lit("/"), D(4, 4)>>,
       <<D(2, 2), Lit("-"), D(2, 2), Lit("-"), D(4, 4)>>,
       <<D(4, 4), Lit("-"), D(2, 2), Lit("-"), D(2, 2)>> >>

\* line 506
phoneRegex == <<D(3, 3), Lit("-"), D(3, 3), Lit("-"), D(4, 4)>>

\* new Date(year, month, day): a year from 0 to 99 stands for 1900 + year
DateOfFields(year, month, day) ==
    LocalDate(IF year <= 99 THEN 1900 + year ELSE year, month, day)

\* new Date(s) for s of the form YYYY-MM-DD: the ECMAScript date-time format,
\* Invalid Date when a field is out of range; a string that is not of that
\* form is parsed in an implementation-defined way, taken to fail here
DateOfString(s) ==
    LET parts == Split(s, "-")
        y == NumberOf(parts[1])
        mn == NumberOf(parts[2])
        d == NumberOf(parts[3])
    IN  IF /\ FullMatch(dobFormats[4], s)
           /\ mn \in 1..12
           /\ d \in 1..DaysInMonth(y, mn - 1)
        THEN LocalDate(y, mn - 1, d)
        ELSE InvalidDate

\* lines 535-545
parsedDate(sanitizedDob) ==
    IF Includes(sanitizedDob, "/")
    THEN LET p == Split(sanitizedDob, "/")
         IN  DateOfFields(NumberOf(p[3]), NumberOf(p[1]) - 1, NumberOf(p[2]))
    ELSE IF StartsWith(sanitizedDob, "20") \/ StartsWith(sanitizedDob, "19")
    THEN DateOfString(sanitizedDob)
    ELSE LET p == Split(sanitizedDob, "-")
         IN  DateOfFields(NumberOf(p[3]), NumberOf(p[1]) - 1, NumberOf(p[2]))

\* lines 552-558
actualAge(today, birth) ==
    LET age == YearFromDay(today) - YearFromDay(birth)
        monthDiff == MonthFromDay(today) - MonthFromDay(birth)
        dayDiff == DateFromDay(today) - DateFromDay(birth)
    IN  IF monthDiff < 0 \/ (monthDiff = 0 /\ dayDiff < 0) THEN age - 1 ELSE age

\* lines 489-511: the errors and the warnings about the phone
phoneChecks(phone) ==
    LET sanitizedPhone == DigitsOnly(phone.text)
    IN  IF ~Truthy(phone) \/ phone.type # "string"
        THEN [sanitized |-> "", errors |-> <<"Phone number is required">>, warnings |-> <<>>]
        ELSE IF Len(sanitizedPhone) = 0
        THEN [sanitized |-> sanitizedPhone,
              errors |-> <<"Phone number cannot be empty">>, warnings |-> <<>>]
        ELSE IF Len(sanitizedPhone) # 10
        THEN [sanitized |-> sanitizedPhone,
              errors |-> <<"Phone number must be 10 digits (found "
                           \o ToString(Len(sanitizedPhone)) \o ")">>,
              warnings |-> <<>>]
        ELSE [sanitized |-> sanitizedPhone,
              errors |-> <<>>,
              warnings |->
                  (IF StartsWith(sanitizedPhone, "0") \/ StartsWith(sanitizedPhone, "1")
                   THEN <<"Phone number format may be invalid (starts with 0 or 1)">>
                   ELSE <<>>)
                  \o (IF ~FullMatch(phoneRegex, phone.text) /\ Len(phone.text) > 0
                      THEN <<"Phone format should be XXX-XXX-XXXX for better readability">>
                      ELSE <<>>)]

\* lines 514-571: the errors and the warnings about the date of birth
dobChecks(dob, today) ==
    LET sanitizedDob == Trim(dob.text)
        isValidFormat == \E f \in 1..Len(dobFormats) : FullMatch(dobFormats[f], sanitizedDob)
        birth == parsedDate(sanitizedDob)
        age == actualAge(today, birth.day)
        Only(errors, warnings) ==
            [sanitized |-> sanitizedDob, errors |-> errors, warnings |-> warnings]
    IN  IF ~Truthy(dob) \/ dob.type # "string"
        THEN [sanitized |-> "", errors |-> <<"Date of birth is required">>, warnings |-> <<>>]
        ELSE IF ~isValidFormat
        THEN Only(<<"Date of birth format should be MM/DD/YYYY, MM-DD-YYYY, or YYYY-MM-DD">>,
                  <<>>)
        ELSE IF ~birth.valid THEN Only(<<"Invalid date of birth">>, <<>>)
        ELSE IF age < 0 THEN Only(<<"Date of birth cannot be in the future">>, <<>>)
        ELSE IF age > 150 THEN Only(<<"Invalid age (over 150 years)">>, <<>>)
        ELSE IF age < 18
        THEN Only(<<>>, <<"Minor patient - guardian consent and presence required">>)
        ELSE IF age > 100
        THEN Only(<<>>, <<"Senior patient - may require additional assistance">>)
        ELSE Only(<<>>, <<>>)

\* lines 482-583: the result of the try block, which calls nothing that
\* throws
validation(phone, dob, today) ==
    LET p == phoneChecks(phone)
        d == dobChecks(dob, today)
        errors == p.errors \o d.errors
    IN  [isValid |-> Len(errors) = 0,
         errors |-> errors,
         warnings |-> p.warnings \o d.warnings,
         sanitizedData |-> IF Len(errors) = 0
                           THEN [phone |-> p.sanitized, dob |-> d.sanitized]
                           ELSE [phone |-> "", dob |-> ""]]

\* lines 588-592
validationSystemError ==
    [isValid |-> FALSE,
     errors |-> <<"Validation system error - please try again">>,
     warnings |-> <<>>,
     sanitizedData |-> [phone |-> "", dob |-> ""]]

\* The argument values of the model that are not strings, and the strings
\* given as phone and date of birth
NonStrings ==
    { JsNull, JsOther("number", "0"), JsOther("object", "{}") }

PhoneTexts == { "", "abc", "123", "555-123-4567", "1551234567" }

DobTexts ==
    { "", "soon", "5/7/2015", "01/01/1850", "01/01/1920", "12/31/2030", "05-20-1990",
      "1990-05-20", "1990-13-01", " 1985-02-28 " }

PhoneArgs == { JsString(t) : t \in PhoneTexts } \cup NonStrings
DobArgs == { JsString(t) : t \in DobTexts } \cup NonStrings

\* new Date() at the time of the calls
Today == MakeDay(2024, 5, 15)

\* validation of the arguments of the model, computed once
validationOf == [phone \in PhoneArgs, dob \in DobArgs |-> validation(phone, dob, Today)]

\* lines 476-594
validatePatient(st, phone, dob, today) ==
    Catch(Return(st, IF phone \in PhoneArgs /\ dob \in DobArgs /\ today = Today
                     THEN validationOf[phone, dob]
                     ELSE validation(phone, dob, today)),
          "validatePatient", validationSystemError, "medium")

\* The arguments of the other calls
UtteranceArgs == { JsString(t) : t \in UtteranceTexts } \cup NonStrings

ProcedureArgs ==
    { JsString(t) : t \in { "", "  ", "Cleaning ", "crown", "whitening", "constructor",
                            "__proto__" } } \cup NonStrings

\* The hours of the day at which an emergency is reported
Hours == { 15, 23 }

\* a call made, its arguments and its outcome
DentalCall(op, args, r) ==
    /\ dsOps < MaxDentalOps
    /\ dsOps' = dsOps + 1
    /\ ds' = r.st
    /\ dsCall' = [op |-> op, args |-> args, threw |-> r.threw, ret |-> r.ret]
    /\ UNCHANGED <<triageVars, bookingVars, waitlistVars, recallVars, shieldVars, vapiVars,
                 airtableVars,
                 messageVars,
                 integrationVars,
                 errorLogVars,
                 boundaryVars,
                 initVars,
                 emergencyVars,
                 baseVars>>

\* the configuration module fails to load procedureConfig, before any call
ConfigFault ==
    /\ dsOps = 0
    /\ ds.configOk
    /\ ds' = [ds EXCEPT !.configOk = FALSE]
    /\ UNCHANGED <<dsCall, dsOps>>
    /\ UNCHANGED <<triageVars, bookingVars, waitlistVars, recallVars, shieldVars, vapiVars,
                 airtableVars,
                 messageVars,
                 integrationVars,
                 errorLogVars,
                 boundaryVars,
                 initVars,
                 emergencyVars,
                 baseVars>>

\* DentalService.scheduleRecall(procedure)
DentalScheduleRecall ==
    \E procedure \in ProcedureArgs :
        DentalCall("scheduleRecall", <<procedure>>, scheduleRecall(ds, procedure))

\* DentalService.handleEmergency(utterance)
DentalHandleEmergency ==
    \E u \in UtteranceArgs, hour \in Hours, pms \in Integrations, sms \in Integrations :
        DentalCall("handleEmergency", <<u, hour, pms, sms>>,
                   handleEmergency(ds, u, hour, pms, sms))

\* DentalService.identifyProcedure(utterance)
DentalIdentifyProcedure ==
    \E u \in UtteranceArgs :
        DentalCall("identifyProcedure", <<u>>, identifyProcedure(ds, u))

\* DentalService.getProcedureInfo(procedure)
DentalGetProcedureInfo ==
    \E procedure \in ProcedureArgs :
        DentalCall("getProcedureInfo", <<procedure>>, getProcedureInfo(ds, procedure))

\* DentalService.validatePatient(phone, dob)
DentalValidatePatient ==
    \E phone \in PhoneArgs, dob \in DobArgs :
        DentalCall("validatePatient", <<phone, dob>>, validatePatient(ds, phone, dob, Today))

(***************************************************************************)
(* The emergency bookings of DentalService.handleEmergency, with the time  *)
(* of the call to the minute.                                              *)
(***************************************************************************)
\* lines 244-272: setHours(getHours() + hoursToAdd) keeps the minutes, and
\* setHours(8, 0, 0, 0) of the adjustment clears them
emergencyAppointmentTime(keywords, hour, minute) ==
    LET slot == emergencySlot(keywords, hour)
        kept == slot.day * 24 + slot.hour = hour + (IF urgencyLevel(keywords) = "high"
                                                    THEN 2 ELSE 6)
    IN  [day |-> slot.day, hour |-> slot.hour, minute |-> IF kept THEN minute ELSE 0]

NoEmergencyBooking ==
    [op |-> "none", booked |-> FALSE, keywords |-> <<>>, hour |-> 0, minute |-> 0,
     urgencyLevel |-> "", appointmentTime |-> [day |-> 0, hour |-> 0, minute |-> 0]]

EmergencyUtterances ==
    { JsString("I have Severe pain"), JsString("throbing"), JsString("hello") }
CallHours == 0..23
CallMinutes == { 30, 59 }

\* DentalService.handleEmergency(utterance) at hour:minute, lines 123-196 with
\* the booking of lines 238-298
HandleDentalEmergency ==
    \E u \in EmergencyUtterances, hour \in CallHours, pms \in Integrations :
        LET sms == "ok"
            r == handleEmergency(ds, u, hour, pms, sms)
            keywords == keywordMatches(ToLowerCase(Trim(u.text)))
        IN  \E minute \in CallMinutes :
            /\ dbOps < MaxEmergencyCalls
            /\ dbOps' = dbOps + 1
            /\ ds' = r.st
            /\ dbBooking' =
                   IF r.ret
                   THEN [op |-> "handleEmergency", booked |-> TRUE, keywords |-> keywords,
                         hour |-> hour, minute |-> minute,
                         urgencyLevel |-> appointmentDetails(keywords, hour).urgencyLevel,
                         appointmentTime |-> emergencyAppointmentTime(keywords, hour, minute)]
                   ELSE [NoEmergencyBooking EXCEPT !.op = "handleEmergency",
                                                   !.hour = hour, !.minute = minute]
            /\ UNCHANGED <<dsCall, dsOps, triageVars, bookingVars, waitlistVars, recallVars,
                           shieldVars, vapiVars, airtableVars, messageVars, integrationVars,
                           errorLogVars, boundaryVars, initVars,
                 baseVars>>

InitEmergency ==
    /\ dbBooking = NoEmergencyBooking
    /\ dbOps = 0

(***************************************************************************)
(* DentalService.initialize called from outside and by its retry timers.   *)
(***************************************************************************)
NoInitialize ==
    [op |-> "none", ret |-> FALSE, scheduled |-> FALSE, succeeded |-> FALSE,
     attempts |-> 0, errorLog |-> <<>>]

\* a call of initialize in state st: the state it leaves, the value it
\* returned, whether it set a timeout, and what it found: whether a call
\* before it returned true, the attempt counter and the error log
InitializeCall(op, st) ==
    LET r == initialize(st)
    IN  /\ ds' = r.st
        /\ inScheduled' = inScheduled + (r.st.retryTimers - st.retryTimers)
        /\ inEvent' = [op |-> op, ret |-> r.ret,
                       scheduled |-> r.st.retryTimers > st.retryTimers,
                       succeeded |-> inEvent.succeeded \/ (inEvent.op # "none" /\ inEvent.ret),
                       attempts |-> st.initializationAttempts,
                       errorLog |-> st.errorLog]
        /\ UNCHANGED <<dsCall, dsOps, triageVars, bookingVars, waitlistVars, recallVars,
                       shieldVars, vapiVars, airtableVars, messageVars, integrationVars,
                       errorLogVars, boundaryVars,
                 emergencyVars,
                 baseVars>>

\* the configuration module fails to load procedureConfig, before any call
InitializeConfigFault ==
    /\ inCalls = 0
    /\ inEvent.op = "none"
    /\ ConfigFault

\* DentalService.initialize() called from outside, lines 10-58
Initialize ==
    /\ inCalls < MaxInitCalls
    /\ inCalls' = inCalls + 1
    /\ InitializeCall("initialize", ds)

\* line 53: a timeout set by a failed call runs this.initialize()
RetryTimerFires ==
    /\ ds.retryTimers > 0
    /\ UNCHANGED inCalls
    /\ InitializeCall("retry", [ds EXCEPT !.retryTimers = @ - 1])

InitInitialize ==
    /\ inCalls = 0
    /\ inScheduled = 0
    /\ inEvent = NoInitialize

(***************************************************************************)
(* The error log of DentalService over a long run: one call after another  *)
(* that logs an error, and at most one call of another kind.               *)
(***************************************************************************)
\* lines 800-808
clearErrorLog(st) == Return([st EXCEPT !.errorLog = <<>>], FALSE)

\* the entries a call handed to errorLog.push: the latest of the log after it
pushedBy(st, after) ==
    SubSeq(after.errorLog, Len(after.errorLog) - (after.logged - st.logged) + 1,
           Len(after.errorLog))

\* a call of the run, its arguments and its outcome
LoggedCall(op, args, r, varied) ==
    /\ elOps < MaxLoggedCalls
    /\ elOps' = elOps + 1
    /\ elVaried' = varied
    /\ ds' = r.st
    /\ dsCall' = [op |-> op, args |-> args, threw |-> r.threw, ret |-> r.ret]
    /\ elLogged' = IF op = "clearErrorLog" THEN <<>> ELSE elLogged \o pushedBy(ds, r.st)
    /\ UNCHANGED <<dsOps, triageVars, bookingVars, waitlistVars, recallVars, shieldVars,
                   vapiVars, airtableVars, messageVars, integrationVars,
                 boundaryVars,
                 initVars,
                 emergencyVars,
                 baseVars>>

\* DentalService.handleEmergency(''), which logs 'Invalid utterance parameter'
EmptyEmergency ==
    LoggedCall("handleEmergency", <<JsString(""), 15, "ok", "ok">>,
               handleEmergency(ds, JsString(""), 15, "ok", "ok"), elVaried)

\* DentalService.scheduleRecall(procedure) for a procedure it rejects or
\* does not know, and handleEmergency for an utterance it accepts
OtherCall ==
    /\ ~elVaried
    /\ \/ \E procedure \in {JsNull, JsString("whitening"), JsString("cleaning")} :
              LoggedCall("scheduleRecall", <<procedure>>, scheduleRecall(ds, procedure), TRUE)
       \/ \E pms \in Integrations :
              LoggedCall("handleEmergency", <<JsString("I have Severe pain"), 15, pms, "ok">>,
                         handleEmergency(ds, JsString("I have Severe pain"), 15, pms, "ok"),
                         TRUE)

\* DentalService.clearErrorLog()
ClearErrorLog ==
    /\ ~elVaried
    /\ LoggedCall("clearErrorLog", <<>>, clearErrorLog(ds), TRUE)

InitErrorLog ==
    /\ elOps = 0
    /\ elVaried = FALSE
    /\ elLogged = <<>>

(***************************************************************************)
(* useVapi (src/unnamed/part_000)                                          *)
(* The hook's state is gathered in a record h; every handler and function  *)
(* is an operator from that record to the record after it has run.  State  *)
(* setters take effect before the next handler runs.  The handlers are     *)
(* registered once, by the effect with the empty dependency list (lines    *)
(* 29-239): they keep the isCallActive of the render that registered them. *)
(* The functions the hook returns are those of the latest render.          *)
(***************************************************************************)
maxReconnectAttempts == 3

Hook ==
    [vapiRef |-> vapiRef, handlers |-> handlers, callStatus |-> callStatus,
     isCallActive |-> isCallActive, isLoading |-> isLoading,
     vapiError |-> vapiError, connectionHealth |-> connectionHealth,
     reconnectAttempts |-> reconnectAttempts, startPending |-> startPending,
     vapiTimers |-> vapiTimers, transcript |-> transcript]

\* setTimeout(callback, delay); isActive is the isCallActive the callback's
\* closure holds
SetTimeout(h, kind, delay, isActive) ==
    [h EXCEPT !.vapiTimers =
        Append(@, [kind |-> kind, delay |-> delay, isCallActive |-> isActive])]

\* the values of the error event: absent fields are empty strings
VapiError(type, message, errorMsg, innerType, innerMsg) ==
    [type |-> type, message |-> message, errorMsg |-> errorMsg,
     error |-> [type |-> innerType, msg |-> innerMsg]]

NoErrorValue == VapiError("", "", "", "", "")

VapiErrors ==
    { VapiError("", "", "Meeting has ended", "", ""),
      VapiError("", "", "", "ejected", ""),
      VapiError("", "", "", "no-room", ""),
      VapiError("daily-error", "", "", "", "Meeting has ended"),
      VapiError("daily-call-join-error", "", "", "", ""),
      VapiError("start-method-error", "", "", "", ""),
      VapiError("daily-error", "network down", "", "", ""),
      NoErrorValue }

\* lines 140-143
IsNormalTermination(e) ==
    \/ e.errorMsg = "Meeting has ended"
    \/ e.error.type = "ejected"
    \/ e.error.type = "no-room"
    \/ e.error.msg = "Meeting has ended"

\* lines 162-174
ShouldRetry(e) ==
    IF e.type = "daily-call-join-error" THEN TRUE
    ELSE IF e.type = "start-method-error" THEN FALSE
    ELSE TRUE

ErrorMessage(e) ==
    IF e.type = "daily-call-join-error"
    THEN "Failed to join voice session. Please try again."
    ELSE IF e.type = "start-method-error"
    THEN "Failed to start voice assistant. Please check your connection."
    ELSE IF e.message # "" THEN e.message
    ELSE IF e.errorMsg # "" THEN e.errorMsg
    ELSE "[object Object]"

\* lines 29-33, 226-238: the effect of the first render; new Vapi may throw
mountEffect(h, ok) ==
    IF ok
    THEN [h EXCEPT !.vapiRef = "vapi",
                   !.handlers = [mounted |-> TRUE, registered |-> TRUE,
                                 isCallActive |-> h.isCallActive]]
    ELSE [h EXCEPT !.handlers = [mounted |-> TRUE, registered |-> FALSE,
                                 isCallActive |-> h.isCallActive],
                   !.vapiError = "Failed to initialize voice assistant",
                   !.connectionHealth = "failed"]

\* the call-start handler without the reset of line 48
onCallStartNoReset(h) ==
    [h EXCEPT !.callStatus = "connecting", !.isCallActive = TRUE,
              !.isLoading = FALSE, !.vapiError = "null",
              !.connectionHealth = "healthy"]

\* lines 36-49
onCallStart(h) ==
    [h EXCEPT !.callStatus = "connecting", !.isCallActive = TRUE,
              !.isLoading = FALSE, !.vapiError = "null",
              !.connectionHealth = "healthy", !.reconnectAttempts = 0]

\* lines 51-65
onCallEnd(h) ==
    SetTimeout([h EXCEPT !.callStatus = "ended", !.isCallActive = FALSE,
                         !.isLoading = FALSE],
               "status-idle", 2000, FALSE)

\* lines 67-71
onSpeechStart(h) ==
    [h EXCEPT !.callStatus = "connected", !.isLoading = FALSE]

\* lines 136-197; isCallActive at line 182 is the one the handler's closure
\* holds, and so is the retryConnection that the timeout of line 185 calls
onError(h, e) ==
    IF IsNormalTermination(e)
    THEN SetTimeout([h EXCEPT !.callStatus = "ended", !.isCallActive = FALSE,
                              !.isLoading = FALSE, !.connectionHealth = "healthy"],
                    "status-idle", 2000, FALSE)
    ELSE LET h1 == [h EXCEPT !.vapiError = ErrorMessage(e), !.callStatus = "error",
                             !.isLoading = FALSE, !.connectionHealth = "failed"]
         IN  IF /\ ShouldRetry(e)
                /\ h.reconnectAttempts < maxReconnectAttempts
                /\ h.handlers.isCallActive
             THEN SetTimeout([h1 EXCEPT !.reconnectAttempts = @ + 1],
                             "reconnect", 2000 * (h.reconnectAttempts + 1),
                             h.handlers.isCallActive)
             ELSE IF ~ShouldRetry(e)
                  THEN SetTimeout(h1, "error-reset", 3000, FALSE)
                  ELSE h1

\* lines 211-224
onConnectionStatus(h, status) ==
    CASE status = "connected" -> [h EXCEPT !.connectionHealth = "healthy"]
      [] status = "connecting" -> [h EXCEPT !.connectionHealth = "degraded"]
      [] status = "disconnected" -> [h EXCEPT !.connectionHealth = "failed"]
      [] OTHER -> h

\* lines 270-319, up to the await; isActive is the isCallActive of the render
\* the function comes from
startCall(h, isActive) ==
    IF h.vapiRef = "null"
    THEN [h EXCEPT !.vapiError = "Voice assistant not initialized"]
    ELSE IF isActive THEN h
    ELSE [h EXCEPT !.isLoading = TRUE, !.vapiError = "null", !.transcript = <<>>,
                   !.connectionHealth = "healthy", !.reconnectAttempts = 0,
                   !.startPending = @ + 1]

\* lines 319-328: vapi.start settles
startSettled(h, ok) ==
    IF ok THEN [h EXCEPT !.startPending = @ - 1]
    ELSE [h EXCEPT !.startPending = @ - 1, !.vapiError = "Failed to start call",
                   !.isLoading = FALSE, !.callStatus = "error",
                   !.connectionHealth = "failed"]

\* lines 332-359
endCall(h) ==
    SetTimeout([h EXCEPT !.isCallActive = FALSE, !.isLoading = FALSE,
                         !.callStatus = "ended"],
               "call-reset", 2000, FALSE)

\* lines 362-381, up to the await of the two-second wait
retryConnection(h, isActive) ==
    IF h.reconnectAttempts >= maxReconnectAttempts
    THEN [h EXCEPT !.vapiError =
                       "Maximum reconnection attempts reached. Please try starting a new call.",
                   !.callStatus = "idle"]
    ELSE SetTimeout([h EXCEPT !.vapiError = "null", !.connectionHealth = "degraded",
                              !.isLoading = TRUE],
                    "retry-wait", 2000, isActive)

\* the callbacks handed to setTimeout: lines 62-64 and 155-157; 351-354 and
\* 192-195; 185-189; 381-382
runTimeout(h, t) ==
    CASE t.kind = "status-idle" -> [h EXCEPT !.callStatus = "idle"]
      [] t.kind \in {"call-reset", "error-reset"} ->
            [h EXCEPT !.callStatus = "idle", !.vapiError = "null"]
      [] t.kind = "reconnect" ->
            IF h.vapiRef # "null" THEN retryConnection(h, t.isCallActive) ELSE h
      [] t.kind = "retry-wait" -> startCall(h, t.isCallActive)

\* the hook's state becomes h, and the handler or function run is recorded
Commit(h, name, e) ==
    /\ vapiSteps < MaxVapiSteps
    /\ vapiSteps' = vapiSteps + 1
    /\ vapiEvent' = [name |-> name, error |-> e]
    /\ vapiRef' = h.vapiRef
    /\ handlers' = h.handlers
    /\ callStatus' = h.callStatus
    /\ isCallActive' = h.isCallActive
    /\ isLoading' = h.isLoading
    /\ vapiError' = h.vapiError
    /\ connectionHealth' = h.connectionHealth
    /\ reconnectAttempts' = h.reconnectAttempts
    /\ startPending' = h.startPending
    /\ vapiTimers' = h.vapiTimers
    /\ transcript' = h.transcript
    /\ UNCHANGED <<triageVars, bookingVars, waitlistVars, recallVars, dentalVars,
                   shieldVars,
                 airtableVars,
                 messageVars,
                 integrationVars,
                 errorLogVars,
                 boundaryVars,
                 initVars,
                 emergencyVars,
                 baseVars>>

\* useEffect(..., []), lines 29-239
Mount ==
    /\ ~handlers.mounted
    /\ \E ok \in BOOLEAN : Commit(mountEffect(Hook, ok), "mount", NoErrorValue)

\* vapi.on('call-start', ...), lines 36-49
OnCallStart ==
    /\ handlers.registered
    /\ Commit(onCallStart(Hook), "call-start", NoErrorValue)

\* vapi.on('call-end', ...), lines 51-65
OnCallEnd ==
    /\ handlers.registered
    /\ Commit(onCallEnd(Hook), "call-end", NoErrorValue)

\* vapi.on('speech-start', ...), lines 67-71
OnSpeechStart ==
    /\ handlers.registered
    /\ Commit(onSpeechStart(Hook), "speech-start", NoErrorValue)

\* vapi.on('error', ...), lines 136-197
OnError ==
    /\ handlers.registered
    /\ \E e \in VapiErrors : Commit(onError(Hook, e), "error", e)

\* vapi.on('connection-status', ...), lines 211-224
OnConnectionStatus ==
    /\ handlers.registered
    /\ \E status \in {"connected", "connecting", "disconnected"} :
           Commit(onConnectionStatus(Hook, status), "connection-status", NoErrorValue)

\* startCall() of the latest render, lines 270-329
StartCall ==
    /\ handlers.mounted
    /\ Commit(startCall(Hook, isCallActive), "startCall", NoErrorValue)

\* the promise of vapi.start is fulfilled or rejected, lines 319-328
StartSettled ==
    /\ startPending > 0
    /\ \E ok \in BOOLEAN : Commit(startSettled(Hook, ok), "start-settled", NoErrorValue)

\* endCall() of the latest render, lines 332-359
EndCall ==
    /\ handlers.mounted
    /\ Commit(endCall(Hook), "endCall", NoErrorValue)

\* retryConnection() of the latest render, lines 362-389
RetryConnection ==
    /\ handlers.mounted
    /\ Commit(retryConnection(Hook, isCallActive), "retryConnection", NoErrorValue)

\* a timeout runs its callback
RunTimeout ==
    \E i \in 1..Len(vapiTimers) :
        Commit(runTimeout([Hook EXCEPT !.vapiTimers = RemoveAt(vapiTimers, i)],
                          vapiTimers[i]),
               "timeout", NoErrorValue)

\* lines 15-27
\* The message handler, lines 78-133, and handleFunctionCall, lines 242-267.
\* A message is its type, role, transcript and text, and the name and the
\* symptoms parameter of its function call; an absent field is "".
Message(type, role, spoken, text, name, symptoms) ==
    [type |-> type, role |-> role, transcript |-> spoken, text |-> text,
     name |-> name, symptoms |-> symptoms]

NoMessage == Message("none", "", "", "", "", "")
NotHanded == [called |-> FALSE, text |-> ""]

\* line 103
transcriptLimit == 50

\* line 96
duplicateWindow == 1000

\* lines 83-89: id is the ordinal of the message in place of the random id;
\* confidence is left out
newEntry(message, now, ordinal) ==
    [id |-> ordinal,
     speaker |-> IF message.role = "user" THEN "user" ELSE "assistant",
     text |-> IF message.transcript # "" THEN message.transcript ELSE message.text,
     timestamp |-> now]

Abs(n) == IF n < 0 THEN -n ELSE n

\* lines 93-97
isDuplicate(prev, entry) ==
    \E i \in 1..Len(prev) :
        /\ prev[i].text = entry.text
        /\ prev[i].speaker = entry.speaker
        /\ Abs(prev[i].timestamp - entry.timestamp) < duplicateWindow

\* the updater without the slice of line 103
appendEntryKeepAll(prev, entry) ==
    IF isDuplicate(prev, entry) THEN prev ELSE Append(prev, entry)

\* lines 92-104: the updater handed to setTranscript
appendEntry(prev, entry) ==
    IF isDuplicate(prev, entry) THEN prev
    ELSE LET updated == Append(prev, entry)
         IN  IF Len(updated) > transcriptLimit
             THEN SubSeq(updated, Len(updated) - transcriptLimit + 1, Len(updated))
             ELSE updated

\* lines 107-115: the text handed to DentalService.handleEmergency
emergencyText(entry) == entry.text

\* lines 109-111 and 253-255: DentalService.initialize() and, when it
\* returns true, DentalService.handleEmergency(text); the state left
emergencyHandling(st, text, hour, pms, sms) ==
    IF initialize(st).ret
    THEN handleEmergency(initialize(st).st, JsString(text), hour, pms, sms).st
    ELSE initialize(st).st

\* whether the handler reaches DentalService.handleEmergency; the text it
\* hands over
handsOver(st, message, entry) ==
    /\ initialize(st).ret
    /\ \/ message.type = "transcript" /\ message.role = "user" /\ entry.text # ""
       \/ message.type = "function-call" /\ message.name = "emergency_triage"

handedText(message, entry) ==
    IF message.type = "transcript" THEN emergencyText(entry) ELSE message.symptoms

\* The regular exchange: the assistant's two questions in turn, half a
\* second apart
RegularMessage(n) ==
    Message("transcript", "assistant",
            IF n % 2 = 0 THEN "How can I help you today?" ELSE "Is there anything else?",
            "", "", "")
RegularDelay == 500

\* The other messages: user transcripts with and without a telephone number,
\* a transcript carried by the text field, an empty one, a conversation
\* update, function calls, and a value that is not a message
OtherMessages ==
    { Message("transcript", "user", "my number is 555-123-4567", "", "", ""),
      Message("transcript", "user", "I have Severe pain", "", "", ""),
      Message("transcript", "user", "", "hello", "", ""),
      Message("transcript", "user", "", "", "", ""),
      Message("conversation-update", "", "", "", "", ""),
      Message("function-call", "", "", "", "emergency_triage", "throbing"),
      Message("function-call", "", "", "", "schedule_appointment", ""),
      Message("null", "", "", "", "", "") }

\* The delays of a message that repeats the latest or the one before it
ShortDelays == { 0, 499 }

\* vapi.on('message', ...), lines 78-133, during a call that was started
MessageReceived(message, delay, varied) ==
    \E hour \in Hours, pms \in Integrations, sms \in Integrations :
        LET now == tvClock + delay
            entry == newEntry(message, now, tvCount + 1)
            spoken == message.type = "transcript"
        IN  /\ handlers.registered
            /\ startPending > 0
            /\ tvCount < MaxMessages
            /\ tvCount' = tvCount + 1
            /\ tvClock' = now
            /\ tvVaried' = varied
            /\ tvMessage' = message
            /\ transcript' = IF spoken THEN appendEntry(transcript, entry) ELSE transcript
            /\ tvArrived' =
                   IF spoken /\ ~\E i \in 1..Len(transcript) :
                                     /\ transcript[i].text = entry.text
                                     /\ transcript[i].speaker = entry.speaker
                                     /\ now - transcript[i].timestamp < 1000
                   THEN IF transcript = <<>> THEN <<entry>> ELSE Append(tvArrived, entry)
                   ELSE tvArrived
            /\ tvHanded' = IF handsOver(ds, message, entry)
                           THEN [called |-> TRUE, text |-> handedText(message, entry)]
                           ELSE NotHanded
            /\ ds' = IF \/ message.type = "transcript" /\ message.role = "user"
                           /\ entry.text # ""
                        \/ message.type = "function-call" /\ message.name = "emergency_triage"
                     THEN emergencyHandling(ds, handedText(message, entry), hour, pms, sms)
                     ELSE ds
            /\ vapiError' = IF message.type = "null" THEN "Error processing conversation"
                            ELSE vapiError
            /\ UNCHANGED <<vapiRef, handlers, callStatus, isCallActive, isLoading,
                           connectionHealth, reconnectAttempts, startPending, vapiTimers,
                           vapiEvent, vapiSteps, dsCall, dsOps>>
            /\ UNCHANGED <<triageVars, bookingVars, waitlistVars, recallVars, shieldVars,
                           airtableVars,
                 integrationVars,
                 errorLogVars,
                 boundaryVars,
                 initVars,
                 emergencyVars,
                 baseVars>>

\* a message of the regular exchange
OnMessage == MessageReceived(RegularMessage(tvCount + 1), RegularDelay, tvVaried)

\* one message out of the regular exchange: another message, or a regular
\* one that comes early
OnOtherMessage ==
    /\ ~tvVaried
    /\ startPending = 1
    /\ \/ \E message \in OtherMessages : MessageReceived(message, RegularDelay, TRUE)
       \/ \E delay \in ShortDelays :
              MessageReceived(RegularMessage(tvCount + 1), delay, TRUE)
       \/ MessageReceived(RegularMessage(tvCount), 0, TRUE)

\* startCall() during the exchange, which empties the list, in place of the
\* message out of the regular exchange
StartCallAgain ==
    /\ ~tvVaried
    /\ startPending <= 1
    /\ StartCall

InitVapi ==
    /\ vapiRef = "null"
    /\ handlers = [mounted |-> FALSE, registered |-> FALSE, isCallActive |-> FALSE]
    /\ callStatus = "idle"
    /\ isCallActive = FALSE
    /\ isLoading = FALSE
    /\ vapiError = "null"
    /\ connectionHealth = "healthy"
    /\ reconnectAttempts = 0
    /\ startPending = 0
    /\ vapiTimers = <<>>
    /\ vapiEvent = [name |-> "none", error |-> NoErrorValue]
    /\ vapiSteps = 0
    /\ transcript = <<>>
    /\ tvClock = 0
    /\ tvCount = 0
    /\ tvVaried = FALSE
    /\ tvArrived = <<>>
    /\ tvMessage = NoMessage
    /\ tvHanded = NotHanded

(***************************************************************************)
(* AirtableService (src/unnamed/part_006) and the useAirtable hook          *)
(* (src/src/hooks/useAirtable.ts).                                         *)
(* A response of Airtable is "ok" (records), "empty" (no record) or        *)
(* "error" (fetch rejects or the status is not ok).  The outcome of a      *)
(* service method is whether its promise rejects, its value or the message *)
(* of its Error, the requests it made, and whether one of them failed.     *)
(***************************************************************************)
Responses == { "ok", "empty", "error" }

\* part_006 line 574
apiError == "Airtable API error: 500 - Internal Server Error"

Resolved(value, requests, failed) ==
    [rejected |-> FALSE, value |-> value, requests |-> requests, failed |-> failed]
Rejected(message, requests) ==
    [rejected |-> TRUE, value |-> message, requests |-> requests, failed |-> TRUE]

\* part_006 lines 554-582, as used by a method without a catch clause
makeRequest(request, response, value) ==
    IF response = "error" THEN Rejected(apiError, <<request>>)
    ELSE Resolved(value, <<request>>, FALSE)

\* part_006 lines 585-596
serviceCreatePatient(response) == makeRequest("POST Patients", response, "patient")

\* part_006 lines 608-624: the catch clause resolves to null
serviceFindPatientByPhone(response) ==
    IF response = "error" THEN Resolved("null", <<"GET Patients">>, TRUE)
    ELSE Resolved(IF response = "ok" THEN "patient" ELSE "null", <<"GET Patients">>, FALSE)

\* part_006 lines 639-650
serviceCreateAppointment(response) == makeRequest("POST Appointments", response, "appointment")

\* part_006 lines 839-857
logEmergencyBooking(response) == makeRequest("POST Emergency Log", response, "undefined")

\* a step of an async method: the outcome of next after that of done, unless
\* done rejected
AndThen(done, next, value) ==
    IF done.rejected THEN done
    ELSE IF next.rejected THEN Rejected(next.value, done.requests \o next.requests)
    ELSE Resolved(value, done.requests \o next.requests, done.failed \/ next.failed)

\* part_006 lines 705-765: responses are those of the requests in the order
\* they are made
serviceCreateEmergencyAppointment(responses) ==
    LET found == serviceFindPatientByPhone(responses[1])
        patient == IF found.value = "null"
                   THEN AndThen(found, serviceCreatePatient(responses[2]), "patient")
                   ELSE found
        rest == IF found.value = "null" THEN Tail(Tail(responses)) ELSE Tail(responses)
        appointment == AndThen(patient, serviceCreateAppointment(rest[1]), "appointment")
    IN  AndThen(appointment, logEmergencyBooking(rest[2]), "{patient, appointment}")

\* The operations of the hook, lines 39-188: reads and creates
ReadOps ==
    { "findPatientByPhone", "getAppointments", "getWaitlist", "getDueRecalls",
      "getAppointmentStats" }
CreateOps == { "createPatient", "createAppointment", "createEmergencyAppointment",
               "addToWaitlist" }

\* the largest number of requests of a method
RequestsOf(op) == IF op = "createEmergencyAppointment" THEN 4 ELSE 1

\* airtableService[op]
serviceCall(op, responses) ==
    CASE op = "createPatient" -> serviceCreatePatient(responses[1])
      [] op = "findPatientByPhone" -> serviceFindPatientByPhone(responses[1])
      [] op = "createAppointment" -> serviceCreateAppointment(responses[1])
      [] op = "createEmergencyAppointment" -> serviceCreateEmergencyAppointment(responses)
      [] op = "addToWaitlist" -> makeRequest("POST Waitlist", responses[1], "waitlistEntry")
      [] op = "getAppointments" ->
             makeRequest("GET Appointments", responses[1],
                         IF responses[1] = "ok" THEN "[appointment]" ELSE "[]")
      [] op = "getWaitlist" ->
             makeRequest("GET Waitlist", responses[1],
                         IF responses[1] = "ok" THEN "[waitlistEntry]" ELSE "[]")
      [] op = "getDueRecalls" ->
             makeRequest("GET Recalls", responses[1],
                         IF responses[1] = "ok" THEN "[recall]" ELSE "[]")
      [] op = "getAppointmentStats" -> makeRequest("GET Appointments", responses[1], "stats")

\* the value a read resolves to from its catch clause
fallbackOf(op) ==
    IF op \in { "findPatientByPhone", "getAppointmentStats" } THEN "null" ELSE "[]"

\* the promise of the hook's operation: a read returns its fallback from the
\* catch clause, a create rethrows
hookOutcome(op, outcome) ==
    IF outcome.rejected /\ op \in ReadOps
    THEN Resolved(fallbackOf(op), outcome.requests, TRUE)
    ELSE outcome

NoAirtableEvent ==
    [kind |-> "none", op |-> "", rejected |-> FALSE, value |-> "", message |-> "",
     failed |-> FALSE, requests |-> <<>>]

AirtableUnchanged ==
    UNCHANGED <<triageVars, bookingVars, waitlistVars, recallVars, dentalVars, shieldVars,
                vapiVars,
                 messageVars,
                 integrationVars,
                 errorLogVars,
                 boundaryVars,
                 initVars,
                 emergencyVars,
                 baseVars>>

\* useAirtable.ts lines 10-36, up to the await: without credentials the effect
\* only reports it
CheckConnection ==
    \E credentials \in BOOLEAN :
        /\ atMounted = "no"
        /\ IF credentials
           THEN /\ atMounted' = "checking"
                /\ atLoading' = TRUE
                /\ UNCHANGED <<atError, atConnected>>
           ELSE /\ atMounted' = "yes"
                /\ atError' = "Airtable credentials not configured"
                /\ atConnected' = FALSE
                /\ atLoading' = FALSE
        /\ atEvent' = [NoAirtableEvent EXCEPT !.kind = "mount"]
        /\ UNCHANGED <<atPending, atOps>>
        /\ AirtableUnchanged

\* lines 22-31 with part_006 lines 916-924: healthCheck never rejects
HealthChecked ==
    \E response \in Responses :
        /\ atMounted = "checking"
        /\ atMounted' = "yes"
        /\ atConnected' = (response # "error")
        /\ atError' = IF response = "error"
                      THEN "Airtable connection failed: Error: " \o apiError
                      ELSE atError
        /\ atLoading' = FALSE
        /\ atEvent' = [NoAirtableEvent EXCEPT !.kind = "health"]
        /\ UNCHANGED <<atPending, atOps>>
        /\ AirtableUnchanged

\* an operation of the hook up to its await: setIsLoading(true),
\* setError(null) and the call of the service
AirtableBegin ==
    \E op \in ReadOps \cup CreateOps :
        /\ atMounted # "no"
        /\ atOps < MaxAirtableOps
        /\ atOps' = atOps + 1
        /\ atLoading' = TRUE
        /\ atError' = "null"
        /\ atPending' = Append(atPending, op)
        /\ atEvent' = [NoAirtableEvent EXCEPT !.kind = "begin", !.op = op]
        /\ UNCHANGED <<atMounted, atConnected>>
        /\ AirtableUnchanged

\* the service settles the operation awaited at position i: the catch clause
\* sets the error, the finally clause clears isLoading
AirtableSettle ==
    \E i \in 1..Len(atPending) :
        \E responses \in [1..RequestsOf(atPending[i]) -> Responses] :
            LET op == atPending[i]
                outcome == serviceCall(op, responses)
                result == hookOutcome(op, outcome)
            IN  /\ atPending' = RemoveAt(atPending, i)
                /\ atError' = IF outcome.rejected THEN outcome.value ELSE atError
                /\ atLoading' = FALSE
                /\ atEvent' = [kind |-> "settle", op |-> op, rejected |-> result.rejected,
                               value |-> result.value,
                               message |-> IF outcome.rejected THEN outcome.value ELSE "",
                               failed |-> outcome.failed, requests |-> outcome.requests]
                /\ UNCHANGED <<atMounted, atConnected, atOps>>
                /\ AirtableUnchanged

InitAirtable ==
    /\ atMounted = "no"
    /\ atConnected = FALSE
    /\ atLoading = FALSE
    /\ atError = "null"
    /\ atPending = <<>>
    /\ atEvent = NoAirtableEvent
    /\ atOps = 0

(***************************************************************************)
(* The voice assistant of src/src/vapi-integration.js                      *)
(***************************************************************************)
\* a message of the SDK: transcript messages carry a role and a transcript
VoiceMessage(type, role, spoken) == [type |-> type, role |-> role, transcript |-> spoken]

\* The transcripts: without and with identifiers, and with emergency keywords
VoiceTexts ==
    { "", "hello", "my number is 555-123-4567", "I have Severe pain",
      "severe pain call 555-123-4567", "it hurts since 1/2/1990" }

VoiceMessages ==
    { VoiceMessage("transcript", role, spoken) :
          role \in {"user", "assistant"}, spoken \in VoiceTexts }
    \cup { VoiceMessage("conversation-update", "", ""),
           VoiceMessage("function-call", "", ""),
           VoiceMessage("speech-update", "user", "") }

\* the events whose handlers write to the console only, lines 18-32 and 48-51
VoiceEvents == { "call-start", "call-end", "speech-start", "speech-end", "error" }

\* redactPHI and analyzeEmergency of the transcripts, evaluated once
voiceRedacted == [text \in VoiceTexts |-> redactPHI(text)]
voiceAnalysis ==
    [text \in { voiceRedacted[t].redactedText : t \in VoiceTexts } \cup VoiceTexts
        |-> analyzeEmergency(text)]

\* the handler with the transcript itself handed to triage
triageArgumentRaw(message, redactionResult) == message.transcript

\* line 44: the argument of handleEmergencyUtterance
triageArgument(message, redactionResult) == redactionResult.redactedText

\* one call the handler makes
VoiceCall(fn, arg) == [fn |-> fn, arg |-> arg]

NoVoiceMessage == VoiceMessage("", "", "")

\* vapi.on('message', ...), lines 34-46
OnVoiceMessage ==
    \E message \in VoiceMessages :
        /\ viCount < MaxVoiceEvents
        /\ viCount' = viCount + 1
        /\ viEvent' = "message"
        /\ viMessage' = message
        /\ IF message.type = "transcript" /\ message.role = "user"
           THEN LET redactionResult == voiceRedacted[message.transcript]
                    argument == triageArgument(message, redactionResult)
                    a == voiceAnalysis[argument]
                IN  /\ hsText' = message.transcript
                    /\ hsResult' = redactionResult
                    /\ hsAuditLog' = Append(hsAuditLog,
                                            AuditEntry(message.transcript, redactionResult))
                    /\ utterance' = argument
                    /\ analysis' = a
                    /\ triagePc' = "handled"
                    /\ triageBooked' = a.isEmergency
                    /\ bookings' = IF a.isEmergency THEN <<BookingCall(a)>> ELSE <<>>
                    /\ viCalls' = << VoiceCall("redactPHI", message.transcript),
                                     VoiceCall("handleEmergencyUtterance", argument) >>
           ELSE /\ viCalls' = <<>>
                /\ UNCHANGED <<shieldVars, triageVars, bookingVars,
                 errorLogVars,
                 boundaryVars,
                 initVars,
                 emergencyVars,
                 baseVars>>
        /\ UNCHANGED <<waitlistVars, recallVars, dentalVars, vapiVars, airtableVars,
                       messageVars,
                 errorLogVars,
                 boundaryVars,
                 initVars,
                 emergencyVars,
                 baseVars>>

\* the handlers of the other events, lines 18-32 and 48-51
OnVoiceEvent ==
    \E name \in VoiceEvents :
        /\ viCount < MaxVoiceEvents
        /\ viCount' = viCount + 1
        /\ viEvent' = name
        /\ viCalls' = <<>>
        /\ UNCHANGED <<viMessage, shieldVars, triageVars, bookingVars, waitlistVars,
                       recallVars, dentalVars, vapiVars, airtableVars, messageVars,
                 errorLogVars,
                 boundaryVars,
                 initVars,
                 emergencyVars,
                 baseVars>>

InitIntegration ==
    /\ viEvent = ""
    /\ viMessage = NoVoiceMessage
    /\ viCalls = <<>>
    /\ viCount = 0

(***************************************************************************)
(* ErrorBoundaryService (src/unnamed/part_006, lines 25-420).  The module  *)
(* initializes the service when it is loaded, so the recovery strategies   *)
(* are set up before any call.                                             *)
(***************************************************************************)
maxReports == 100

\* lines 52-114: the strategies in the order of their priority, with the
\* words of their condition and what their action does
recoveryStrategies ==
    << [name |-> "VAPI Connection Recovery", words |-> <<"VAPI", "connection">>,
        action |-> "dispatchEvent", priority |-> 1],
       [name |-> "Component Reinitialization", words |-> <<"component", "render">>,
        action |-> "dispatchEvent", priority |-> 2],
       [name |-> "Service Restart", words |-> <<"service", "initialize">>,
        action |-> "initialize", priority |-> 3],
       [name |-> "Fallback Mode", words |-> <<"">>,
        action |-> "dispatchEvent", priority |-> 10] >>

\* lines 207-236: the strategies tried in turn from the k-th; dispatch tells
\* whether window.dispatchEvent works
\* one strategy run: its name, its priority and what its action returned
Tried(strategy, success) ==
    [name |-> strategy.name, priority |-> strategy.priority, success |-> success]

\* a strategy run put before those run after it
After(first, rest) == [rest EXCEPT !.tried = <<first>> \o @]

\* the action of a strategy: window.dispatchEvent, or DentalService.initialize
strategyAction(strategy, st, dispatch) ==
    IF strategy.action = "initialize" THEN initialize(st)
    ELSE [ret |-> dispatch = "ok", st |-> st]

\* the loop that ends with the first applicable strategy, whatever it returned
RECURSIVE tryStrategiesFirstOnly(_, _, _, _)
tryStrategiesFirstOnly(k, st, message, dispatch) ==
    IF k > Len(recoveryStrategies) THEN [ret |-> FALSE, st |-> st, tried |-> <<>>]
    ELSE LET strategy == recoveryStrategies[k]
             done == strategyAction(strategy, st, dispatch)
         IN  IF ~SomeIncluded(message, strategy.words)
             THEN tryStrategiesFirstOnly(k + 1, st, message, dispatch)
             ELSE [ret |-> done.ret, st |-> done.st,
                   tried |-> <<Tried(strategy, done.ret)>>]

RECURSIVE tryStrategies(_, _, _, _)
tryStrategies(k, st, message, dispatch) ==
    IF k > Len(recoveryStrategies) THEN [ret |-> FALSE, st |-> st, tried |-> <<>>]
    ELSE LET strategy == recoveryStrategies[k]
             done == strategyAction(strategy, st, dispatch)
         IN  IF ~SomeIncluded(message, strategy.words)
             THEN tryStrategies(k + 1, st, message, dispatch)
             ELSE IF done.ret
             THEN [ret |-> TRUE, st |-> done.st, tried |-> <<Tried(strategy, TRUE)>>]
             ELSE After(Tried(strategy, FALSE),
                        tryStrategies(k + 1, done.st, message, dispatch))

attemptRecovery(st, message, dispatch) == tryStrategies(1, st, message, dispatch)

\* lines 178-182: the store after a report is added
addReport(reports, report) ==
    LET pushed == Append(reports, report)
    IN  IF Len(pushed) > maxReports
        THEN SubSeq(pushed, Len(pushed) - maxReports + 1, Len(pushed))
        ELSE pushed

\* lines 391-392: Array.prototype.sort with (a, b) => b.timestamp - a.timestamp,
\* which is stable and sorts the array it is called on: a report comes behind
\* the later ones and behind those of its own millisecond that were before it
sortRecent(reports) ==
    LET n == Len(reports)
        place == [i \in 1..n |->
                    1 + Cardinality({ j \in 1..n :
                            \/ reports[j].timestamp > reports[i].timestamp
                            \/ /\ reports[j].timestamp = reports[i].timestamp
                               /\ j < i })]
    IN  [p \in 1..n |-> reports[CHOOSE i \in 1..n : place[i] = p]]

\* the ranks of a sequence of reports
RanksOf(reports) == [i \in 1..Len(reports) |-> reports[i].rank]

\* The other reports: an error for each strategy, one that no strategy
\* recovers, and reports in the millisecond of the call before them
OtherReports ==
    { [message |-> "VAPI connection lost", severity |-> "high", dispatch |-> "ok", delay |-> 1],
      [message |-> "render failed", severity |-> "low", dispatch |-> "ok", delay |-> 1],
      [message |-> "service unavailable", severity |-> "critical", dispatch |-> "ok",
       delay |-> 1],
      [message |-> "boom", severity |-> "medium", dispatch |-> "throws", delay |-> 1],
      [message |-> "boom", severity |-> "medium", dispatch |-> "ok", delay |-> 0],
      [message |-> "service unavailable", severity |-> "high", dispatch |-> "throws",
       delay |-> 0] }

\* a call of the run
BoundaryCall(op, ret, varied, delay) ==
    /\ ebClock' = ebClock + delay
    /\ ebVaried' = varied
    /\ ebEvent' = [op |-> op, ret |-> ret]

BoundaryUnchanged ==
    UNCHANGED <<dsCall, dsOps, triageVars, bookingVars, waitlistVars, recallVars,
                shieldVars, vapiVars, airtableVars, messageVars, integrationVars,
                errorLogVars,
                 initVars,
                 emergencyVars,
                 baseVars>>

\* ErrorBoundaryService.reportError(error, context, severity), lines 156-205
reportError(message, severity, dispatch, varied, delay) ==
    LET recovered == attemptRecovery(ds, message, dispatch)
        report == [rank |-> ebCount + 1, timestamp |-> ebClock + delay,
                   message |-> message, severity |-> severity,
                   recovered |-> recovered.ret]
    IN  /\ ebCount < MaxReports
        /\ ebCount' = ebCount + 1
        /\ ebReports' = addReport(ebReports, report)
        /\ ebReported' = Append(ebReported, ebCount + 1)
        /\ ds' = recovered.st
        /\ BoundaryCall("reportError",
                        [recovered |-> recovered.ret, tried |-> recovered.tried,
                         message |-> message],
                        varied, delay)
        /\ BoundaryUnchanged

\* the regular report of the run, one millisecond after the call before it
ReportError == reportError("boom", "medium", "ok", ebVaried, 1)

\* a report of another error, or one in the millisecond of the call before it
ReportOtherError ==
    /\ ~ebVaried
    /\ \E other \in OtherReports :
           reportError(other.message, other.severity, other.dispatch, TRUE, other.delay)

\* ErrorBoundaryService.getRecentErrors(count), lines 389-398
GetRecentErrors ==
    /\ ~ebVaried
    /\ \E count \in {1, 10} :
           /\ ebReports' = sortRecent(ebReports)
           /\ BoundaryCall("getRecentErrors",
                           RanksOf(SubSeq(sortRecent(ebReports), 1,
                                          Min(count, Len(ebReports)))),
                           TRUE, 1)
           /\ UNCHANGED <<ebCount, ebReported, ds>>
           /\ BoundaryUnchanged

\* ErrorBoundaryService.getErrorStatistics(), lines 278-342: totalErrors
GetErrorStatistics ==
    /\ ~ebVaried
    /\ BoundaryCall("getErrorStatistics", Len(ebReports), TRUE, 1)
    /\ UNCHANGED <<ebReports, ebCount, ebReported, ds>>
    /\ BoundaryUnchanged

\* lines 356-362: the body of the loop for the k-th report
recoverOne(k, acc, dispatch) ==
    IF acc.reports[k].recovered THEN acc
    ELSE LET recovered == attemptRecovery(acc.st, acc.reports[k].message, dispatch)
         IN  IF recovered.ret
             THEN [reports |-> [acc.reports EXCEPT ![k].recovered = TRUE],
                   st |-> recovered.st, count |-> acc.count + 1]
             ELSE [acc EXCEPT !.st = recovered.st]

\* lines 352-363: the loop over the reports lo..hi, in their order
RECURSIVE recoverRange(_, _, _, _)
recoverRange(lo, hi, acc, dispatch) ==
    IF lo > hi THEN acc
    ELSE IF lo = hi THEN recoverOne(lo, acc, dispatch)
    ELSE recoverRange((lo + hi) \div 2 + 1, hi,
                      recoverRange(lo, (lo + hi) \div 2, acc, dispatch), dispatch)

\* ErrorBoundaryService.triggerRecovery(), lines 345-375
TriggerRecovery ==
    /\ ~ebVaried
    /\ \E dispatch \in {"ok", "throws"} :
           LET r == recoverRange(1, Len(ebReports),
                                 [reports |-> ebReports, st |-> ds, count |-> 0], dispatch)
           IN  /\ ebReports' = r.reports
               /\ ds' = r.st
               /\ BoundaryCall("triggerRecovery", r.count > 0, TRUE, 1)
               /\ UNCHANGED <<ebCount, ebReported>>
               /\ BoundaryUnchanged

\* ErrorBoundaryService.clearReports(), lines 378-386
ClearReports ==
    /\ ~ebVaried
    /\ ebReports' = <<>>
    /\ ebReported' = <<>>
    /\ BoundaryCall("clearReports", FALSE, TRUE, 1)
    /\ UNCHANGED <<ebCount, ds>>
    /\ BoundaryUnchanged

\* The errors of a run of recoveries: for one strategy each, for several,
\* and for the fallback alone
RecoveryMessages ==
    { "VAPI connection lost", "render failed", "service unavailable", "boom",
      "VAPI service failed to render", "component failed to initialize" }

\* the configuration module fails to load procedureConfig, before any call
RecoveryConfigFault ==
    /\ ebCount = 0
    /\ ConfigFault

\* ErrorBoundaryService.reportError(error, context) with the recovery of lines
\* 207-236, in a run of recoveries
ReportForRecovery ==
    /\ ebCount < MaxRecoveries
    /\ \E message \in RecoveryMessages, dispatch \in {"ok", "throws"} :
           reportError(message, "medium", dispatch, ebVaried, 1)

InitBoundary ==
    /\ ebReports = <<>>
    /\ ebClock = 0
    /\ ebCount = 0
    /\ ebReported = <<>>
    /\ ebVaried = FALSE
    /\ ebEvent = [op |-> "none", ret |-> FALSE]

(***************************************************************************)
(* AirtableService.createEmergencyAppointment against the tables of the    *)
(* base (src/unnamed/part_006, lines 705-765).  A record id is the rank of *)
(* the record in its table.                                                *)
(***************************************************************************)
\* SUBSTITUTE(phone, "-", "") of the filterByFormula of line 612
RECURSIVE WithoutHyphens(_)
WithoutHyphens(s) ==
    IF Len(s) = 0 THEN ""
    ELSE (IF CharAt(s, 1) = "-" THEN "" ELSE CharAt(s, 1))
         \o WithoutHyphens(SubSeq(s, 2, Len(s)))

\* lines 610-613: the records the request of findPatientByPhone selects
selectedPatients(patients, phone) ==
    SelectSeq(patients, LAMBDA record : WithoutHyphens(record.phone) = DigitsOnly(phone))

\* the request of a call that the base answers with an error, if any
FailingRequests ==
    { "none", "GET Patients", "POST Patients", "POST Appointments", "POST Emergency Log" }

\* the response to a request other than the search
responseTo(request, failing) == IF failing = request THEN "error" ELSE "ok"

\* the responses to the requests of createEmergencyAppointment, in the order
\* they are made
emergencyResponses(base, phone, failing) ==
    LET found == IF failing = "GET Patients" THEN "error"
                 ELSE IF selectedPatients(base.patients, phone) # <<>> THEN "ok"
                 ELSE "empty"
    IN  <<found>>
        \o (IF found = "ok" THEN <<>> ELSE <<responseTo("POST Patients", failing)>>)
        \o << responseTo("POST Appointments", failing),
              responseTo("POST Emergency Log", failing) >>

\* lines 705-765: the outcome of the call, the records it wrote and the base
\* it leaves
createEmergencyAppointment(base, phone, failing) ==
    LET responses == emergencyResponses(base, phone, failing)
        outcome == serviceCreateEmergencyAppointment(responses)
        written(request) ==
            /\ \E i \in 1..Len(outcome.requests) : outcome.requests[i] = request
            /\ failing # request
        patientId == IF responses[1] = "ok"
                     THEN selectedPatients(base.patients, phone)[1].id
                     ELSE Len(base.patients) + 1
        patient == [id |-> patientId, phone |-> phone]
        appointment == [id |-> Len(base.appointments) + 1, patientId |-> patientId,
                        phone |-> phone]
        logged == [id |-> Len(base.emergencyLog) + 1, appointmentId |-> appointment.id,
                   phone |-> phone]
    IN  [rejected |-> outcome.rejected,
         requests |-> outcome.requests,
         writes |-> (IF written("POST Patients") THEN <<"Patients">> ELSE <<>>)
                    \o (IF written("POST Appointments") THEN <<"Appointments">> ELSE <<>>)
                    \o (IF written("POST Emergency Log") THEN <<"Emergency Log">> ELSE <<>>),
         base |-> [patients |-> IF written("POST Patients")
                                THEN Append(base.patients, patient) ELSE base.patients,
                   appointments |-> IF written("POST Appointments")
                                    THEN Append(base.appointments, appointment)
                                    ELSE base.appointments,
                   emergencyLog |-> IF written("POST Emergency Log")
                                    THEN Append(base.emergencyLog, logged)
                                    ELSE base.emergencyLog]]

\* The telephone numbers given: one number written in three ways, and another
EmergencyPhones == { "555-123-4567", "(555) 123-4567", "5551234567", "555-987-6543" }

NoEmergencyAppointment ==
    [op |-> "none", phone |-> "", failing |-> "none", rejected |-> FALSE,
     requests |-> <<>>, writes |-> <<>>, before |-> <<>>]

\* airtableService.createEmergencyAppointment(emergencyData)
CreateEmergencyAppointment ==
    \E phone \in EmergencyPhones, failing \in FailingRequests :
        LET r == createEmergencyAppointment(abBase, phone, failing)
        IN  /\ abCalls < MaxEmergencyAppointments
            /\ abCalls' = abCalls + 1
            /\ abBase' = r.base
            /\ abEvent' = [op |-> "createEmergencyAppointment", phone |-> phone,
                           failing |-> failing, rejected |-> r.rejected,
                           requests |-> r.requests, writes |-> r.writes,
                           before |-> abBase.patients]
            /\ UNCHANGED <<triageVars, bookingVars, waitlistVars, recallVars, dentalVars,
                           shieldVars, vapiVars, airtableVars, messageVars,
                           integrationVars, errorLogVars, boundaryVars, initVars,
                           emergencyVars>>

InitBase ==
    /\ abBase = [patients |-> <<>>, appointments |-> <<>>, emergencyLog |-> <<>>]
    /\ abEvent = NoEmergencyAppointment
    /\ abCalls = 0

(***************************************************************************)
(* Initial state and specifications.                                       *)
(***************************************************************************)
Init ==
    /\ InitTriage
    /\ InitWaitlist
    /\ InitRecall
    /\ InitDental
    /\ InitShield
    /\ InitVapi
    /\ InitAirtable
    /\ InitBase
    /\ InitEmergency
    /\ InitInitialize
    /\ InitBoundary
    /\ InitErrorLog
    /\ InitIntegration

NextTriage == AnalyzeEmergency \/ HandleEmergencyUtterance \/ TriageReturn
SpecTriage == Init /\ [][NextTriage]_vars

NextBooking == BookEmergencyAppointment
SpecBooking == Init /\ [][NextBooking]_vars

NextWaitlist ==
    \/ HandleCancellationBegin
    \/ HandleCancellationResume
    \/ AddToWaitlist
    \/ WaitlistTick
SpecWaitlist == Init /\ [][NextWaitlist]_vars

NextRecall ==
    \/ GetRecallConfig
    \/ AddPatientRecall
    \/ ScheduleRecall
    \/ GetDueRecalls
    \/ GetOverdueRecalls
    \/ GetRecallStats
    \/ RecallTick
SpecRecall == Init /\ [][NextRecall]_vars

NextShield == RedactPHI
SpecShield == Init /\ [][NextShield]_vars

NextVapi ==
    \/ Mount
    \/ OnCallStart
    \/ OnCallEnd
    \/ OnSpeechStart
    \/ OnError
    \/ OnConnectionStatus
    \/ StartCall
    \/ StartSettled
    \/ EndCall
    \/ RetryConnection
    \/ RunTimeout
SpecVapi == Init /\ [][NextVapi]_vars

NextDental ==
    \/ ConfigFault
    \/ DentalScheduleRecall
    \/ DentalHandleEmergency
    \/ DentalIdentifyProcedure
    \/ DentalGetProcedureInfo
    \/ DentalValidatePatient
SpecDental == Init /\ [][NextDental]_vars

NextAirtable ==
    \/ CheckConnection
    \/ HealthChecked
    \/ AirtableBegin
    \/ AirtableSettle
SpecAirtable == Init /\ [][NextAirtable]_vars

NextMessages ==
    \/ Mount
    \/ StartCallAgain
    \/ OnMessage
    \/ OnOtherMessage
SpecMessages == Init /\ [][NextMessages]_vars

NextBase ==
    \/ CreateEmergencyAppointment
SpecBase == Init /\ [][NextBase]_vars

NextRecovery ==
    \/ RecoveryConfigFault
    \/ ReportForRecovery
SpecRecovery == Init /\ [][NextRecovery]_vars

NextEmergency ==
    \/ HandleDentalEmergency
SpecEmergency == Init /\ [][NextEmergency]_vars

NextInitialize ==
    \/ InitializeConfigFault
    \/ Initialize
    \/ RetryTimerFires
SpecInitialize == Init /\ [][NextInitialize]_vars

NextBoundary ==
    \/ ReportError
    \/ ReportOtherError
    \/ GetRecentErrors
    \/ GetErrorStatistics
    \/ TriggerRecovery
    \/ ClearReports
SpecBoundary == Init /\ [][NextBoundary]_vars

NextErrorLog ==
    \/ EmptyEmergency
    \/ OtherCall
    \/ ClearErrorLog
SpecErrorLog == Init /\ [][NextErrorLog]_vars

NextIntegration ==
    \/ OnVoiceMessage
    \/ OnVoiceEvent
SpecIntegration == Init /\ [][NextIntegration]_vars

(***************************************************************************)
(* Claims about EmergencyTriage.                                           *)
(***************************************************************************)
TriageDone == triagePc # "idle"

\* C1: analyzeEmergency marks isEmergency exactly when the lower-cased
\* utterance contains a configured emergency keyword as a substring, and for
\* an utterance with no keyword it returns isEmergency=false, painLevel 0,
\* no symptoms and urgencyScore 0.
C1_EmergencyIffKeyword ==
    TriageDone =>
        /\ analysis.isEmergency <=>
               \E k \in 1..Len(emergencyKeywords) :
                   Includes(ToLowerCase(utterance), emergencyKeywords[k])
        /\ ~analysis.isEmergency =>
               /\ analysis.painLevel = 0
               /\ analysis.symptoms = <<>>
               /\ analysis.urgencyScore = 0

\* an utterance whose keyword is matched only after lower-casing
C1_Witness ==
    /\ TriageDone
    /\ analysis.isEmergency
    /\ utterance = "Broken"

\* C2: the urgencyScore analyzeEmergency returns lies in 0..100.
C2_UrgencyInRange == TriageDone => analysis.urgencyScore \in 0..100

\* an utterance whose score before clamping exceeds 100
C2_Witness ==
    /\ TriageDone
    /\ Len(analysis.symptoms) * 15 + analysis.painLevel * 8 > 100
    /\ analysis.urgencyScore = 100

\* C7 as stated: an emergency's painLevel is 9 with a severe keyword, else 6
\* with a moderate keyword, else 3.
C7_PainLevelThreeSixNine ==
    (TriageDone /\ analysis.isEmergency) =>
        analysis.painLevel =
            IF SomeIncluded(ToLowerCase(utterance), painSevere) THEN 9
            ELSE IF SomeIncluded(ToLowerCase(utterance), painModerate) THEN 6
            ELSE 3

\* C7 amended: an emergency's painLevel is 9 with a severe keyword, else 6
\* with a moderate keyword, else 3 with a mild keyword, else the default 5.
C7_PainLevel ==
    (TriageDone /\ analysis.isEmergency) =>
        LET l == ToLowerCase(utterance)
            has(words) == \E k \in 1..Len(words) : Includes(l, words[k])
        IN  /\ analysis.painLevel \in {3, 5, 6, 9}
            /\ analysis.painLevel = 9 <=> has(painSevere)
            /\ analysis.painLevel = 6 <=> (~has(painSevere) /\ has(painModerate))
            /\ analysis.painLevel = 3 <=>
                   (~has(painSevere) /\ ~has(painModerate) /\ has(painMild))

\* an emergency with no pain-level keyword at all: the default applies
C7_Witness ==
    /\ TriageDone
    /\ analysis.isEmergency
    /\ analysis.painLevel = 5

\* C8: every booking has maxWait 2 when urgencyScore > 80, 6 when
\* 50 < urgencyScore <= 80 and 24 otherwise, and of two bookings the one with
\* the higher urgencyScore never has the longer maxWait.
C8_WaitTiers ==
    /\ \A i \in 1..Len(bookings) :
           LET score == bookings[i].analysis.urgencyScore
               wait == bookings[i].booking.maxWait
           IN  /\ wait \in {2, 6, 24}
               /\ wait = 2 <=> score > 80
               /\ wait = 6 <=> (50 < score /\ score <= 80)
               /\ wait = 24 <=> score <= 50
    /\ \A i, j \in 1..Len(bookings) :
           bookings[i].analysis.urgencyScore <= bookings[j].analysis.urgencyScore
               => bookings[i].booking.maxWait >= bookings[j].booking.maxWait

\* two bookings across the 80/81 threshold, then the middle tier is used too
C8_Witness ==
    /\ Len(bookings) = 2
    /\ bookings[1].analysis.urgencyScore = 80
    /\ bookings[2].analysis.urgencyScore = 81
    /\ bookings[1].booking.maxWait = 6
    /\ bookings[2].booking.maxWait = 2

(***************************************************************************)
(* Claims about NoShowDefender.                                            *)
(***************************************************************************)
\* the tier of a priority: emergency before new_patient before regular
Tier(e) == CASE e.priority = "emergency" -> 1
             [] e.priority = "new_patient" -> 2
             [] e.priority = "regular" -> 3

\* one of the entry's preferredTimes is a substring of the lower-cased slot
Eligible(e, slot) ==
    \E k \in 1..Len(e.preferredTimes) : Includes(timeSlot[slot], e.preferredTimes[k])

\* C3: handleCancellation fills the slot with an eligible entry of the
\* highest priority tier among the eligible entries of the waitlist, and of
\* those the one added earliest; it reports filled=false only when no entry
\* is eligible.
C3_FillsBestEligible ==
    hcCalls > 0 =>
        LET d == hcDecision
            E == { i \in 1..Len(d.before) : Eligible(d.before[i], d.slot) }
        IN  /\ d.filled <=> E # {}
            /\ d.filled =>
                   /\ Len(d.patient) = 1
                   /\ \E i \in E : d.before[i] = d.patient[1]
                   /\ \A i \in E : Tier(d.patient[1]) <= Tier(d.before[i])
                   /\ \A i \in E : Tier(d.patient[1]) = Tier(d.before[i])
                          => d.patient[1].addedAt <= d.before[i].addedAt

\* the chosen entry stood behind another eligible entry in the array
C3_Witness ==
    /\ hcCalls > 0
    /\ hcDecision.filled
    /\ \E i, j \in 1..Len(hcDecision.before) :
           /\ i < j
           /\ Eligible(hcDecision.before[i], hcDecision.slot)
           /\ hcDecision.before[j] = hcDecision.patient[1]

\* the entries handed out as fills so far: returned, or chosen by a call
\* that is suspended
HandedOut == [i \in 1..(Len(hcReturned) + Len(hcPending)) |->
                 IF i <= Len(hcReturned) THEN hcReturned[i].patient.uid
                 ELSE hcPending[i - Len(hcReturned)].patient.uid]

\* C4: the entry chosen by a handleCancellation call is off the waitlist
\* while the call is suspended, and no entry is the fill of two
\* cancellations, also when calls overlap.
C4_NoDoubleFill ==
    /\ \A i \in 1..Len(hcPending) : \A k \in 1..Len(waitlist) :
           waitlist[k].uid # hcPending[i].patient.uid
    /\ \A i, j \in 1..Len(HandedOut) : i # j => HandedOut[i] # HandedOut[j]

\* a second call has begun and chosen its fill while the first is suspended
C4_Witness == Len(hcPending) = 2

(***************************************************************************)
(* Claims about the recall interval and the next-due date.                 *)
(***************************************************************************)
\* the interval the claims expect for a procedure of RecallAutomator: the
\* one stored in the table, 6 for a name the table does not hold
ExpectedRecallInterval(procedure) ==
    IF procedure \in RecallConfigKeys THEN recallConfigs[procedure].interval.value
    ELSE 6

\* the date `date` advanced by `months` calendar months equals `result`, a
\* day past the end of the month reached running over into the next month
AdvancedByMonths(date, months, result) ==
    LET target == YearFromDay(date.day) * 12 + MonthFromDay(date.day) + months
        d == DateFromDay(date.day)
        dim == DaysInMonth(target \div 12, target % 12)
        landed == IF d <= dim THEN target ELSE target + 1
    IN  /\ date.valid /\ result.valid
        /\ YearFromDay(result.day) = landed \div 12
        /\ MonthFromDay(result.day) = landed % 12
        /\ DateFromDay(result.day) = IF d <= dim THEN d ELSE d - dim

LastRecall == patientRecalls[Len(patientRecalls)]

\* C5: addPatientRecall gives the new recall status 'due', contactAttempts
\* 0 and a nextDue that is the last visit advanced by the interval of the
\* procedure's recall configuration; a cleaning visit on 2024-02-15 is due
\* on 2024-08-15.
C5_NextDueAdvanced ==
    rcCall.op = "addPatientRecall" =>
        /\ LastRecall.status = "due"
        /\ LastRecall.contactAttempts = 0
        /\ AdvancedByMonths(LastRecall.lastVisit,
                            ExpectedRecallInterval(LastRecall.procedure),
                            LastRecall.nextDue)
        /\ (LastRecall.procedure = "cleaning"
             /\ LastRecall.lastVisit = LocalDate(2024, 1, 15))
               => LastRecall.nextDue = LocalDate(2024, 7, 15)

\* C5, the part the code keeps: the same statement for every procedure
\* name that is not a member inherited from Object.prototype.
C5_NextDueAdvancedOwnNames ==
    (rcCall.op = "addPatientRecall" /\ rcCall.procedure \notin ObjectPrototypeKeys)
        => C5_NextDueAdvanced

\* C9: getRecallConfig returns the interval of the table for a known
\* procedure and 6 for any other name, scheduleRecall returns the interval
\* of its table for a known (normalised) procedure name and 6 for any
\* other, and the result is a positive number of months.
C9_IntervalLookup ==
    /\ rcCall.op = "getRecallConfig" =>
           /\ rcCall.interval.type = "number"
           /\ rcCall.interval.value = ExpectedRecallInterval(rcCall.procedure)
           /\ rcCall.interval.value > 0
    /\ rcCall.op = "scheduleRecall" =>
           LET name == Trim(ToLowerCase(rcCall.procedure))
           IN  /\ rcCall.interval.type = "number"
               /\ rcCall.interval.value =
                      IF name \in RecallIntervalKeys THEN recallIntervals[name] ELSE 6
               /\ rcCall.interval.value > 0

\* C9, the part the code keeps: scheduleRecall alone.
C9_ScheduleRecallFallsBack == rcCall.op = "scheduleRecall" => C9_IntervalLookup

(***************************************************************************)
(* Claims about HIPAAShield.redactPHI                                      *)
(***************************************************************************)
PhoneToken == "[PHONE-REDACTED]"

\* characters i..i+11 of s have the form ddd-ddd-dddd
PhoneAt(s, i) ==
    /\ i >= 1
    /\ i + 11 <= Len(s)
    /\ \A k \in 0..11 :
          IF k \in {3, 7} THEN CharAt(s, i + k) = "-"
          ELSE CharAt(s, i + k) \in Digits

\* ... and no letter, digit or underscore touches them on either side
DelimitedPhoneAt(s, i) ==
    /\ PhoneAt(s, i)
    /\ ~IsWordAt(s, i - 1)
    /\ ~IsWordAt(s, i + 12)

Redaction == hsAuditLog # <<>>

RetryableErrorStep ==
    /\ vapiSteps' = vapiSteps + 1
    /\ vapiEvent'.name = "error"
    /\ ~IsNormalTermination(vapiEvent'.error)
    /\ vapiEvent'.error.type # "start-method-error"
    /\ isCallActive
    /\ reconnectAttempts < maxReconnectAttempts

\* C10: an error other than a 'start-method-error' and other than a normal
\* termination, handled while the call is active and fewer than 3
\* reconnections have been attempted, counts one more attempt n and sets a
\* timeout of 2000 * n ms that reconnects.
C10_ReconnectionScheduled ==
    [][RetryableErrorStep =>
          /\ reconnectAttempts' = reconnectAttempts + 1
          /\ Len(vapiTimers') = Len(vapiTimers) + 1
          /\ vapiTimers'[Len(vapiTimers')].kind = "reconnect"
          /\ vapiTimers'[Len(vapiTimers')].delay = 2000 * reconnectAttempts']_vars

\* the hook's state with n reconnections counted and with handlers whose
\* closures hold isActive
HookWith(n, isActive) ==
    [Hook EXCEPT !.reconnectAttempts = n, !.handlers.isCallActive = isActive]

Malformed(v) == v.type # "string" \/ Trim(v.text) = ""

\* C12: scheduleRecall, handleEmergency, identifyProcedure, getProcedureInfo
\* and validatePatient never throw, whatever their arguments and whether or
\* not initialization succeeds; with a malformed argument or a failed
\* initialization they return their safe default: 6, false, null, null and
\* a result with isValid false.
C12_NeverThrows ==
    /\ ~dsCall.threw
    /\ dsCall.op = "scheduleRecall" /\ (Malformed(dsCall.args[1]) \/ ~ds.configOk)
           => dsCall.ret = 6
    /\ dsCall.op = "handleEmergency" /\ (Malformed(dsCall.args[1]) \/ ~ds.configOk)
           => dsCall.ret = FALSE
    /\ dsCall.op = "identifyProcedure" /\ (Malformed(dsCall.args[1]) \/ ~ds.configOk)
           => dsCall.ret = JsNull
    /\ dsCall.op = "getProcedureInfo" /\ (Malformed(dsCall.args[1]) \/ ~ds.configOk)
           => dsCall.ret = JsNull
    /\ dsCall.op = "validatePatient" /\ (Malformed(dsCall.args[1]) \/ Malformed(dsCall.args[2]))
           => ~dsCall.ret.isValid

C12_Witness ==
    /\ dsCall.op = "handleEmergency"
    /\ dsCall.args[1].type # "string"
    /\ ~ds.configOk
    /\ dsCall.ret = FALSE
    /\ Len(ds.errorLog) = 4

(***************************************************************************)
(* Claims about the recall lists.                                          *)
(***************************************************************************)
Ascending(list) ==
    \A i \in 1..(Len(list) - 1) : list[i].nextDue.day <= list[i + 1].nextDue.day

Listed(list, recall) == \E i \in 1..Len(list) : list[i] = recall

\* the days at which a recall enters a list, and the days next to them
BoundaryDays ==
    { rcNow } \cup
    UNION { { patientRecalls[i].nextDue.day + k : k \in { -31, -30, -1, 0, 1 } } :
            i \in { j \in 1..Len(patientRecalls) : patientRecalls[j].nextDue.valid } }

\* C15: at any reading of the clock every recall of getOverdueRecalls is in
\* getDueRecalls, both lists are in ascending order of nextDue, and
\* getRecallStats reports totalOverdue <= totalDue as the lengths of the
\* two lists.
C15_OverdueIsDue ==
    /\ Ascending(rcLists.due) /\ Ascending(rcLists.overdue)
    /\ rcLists.op = "getRecallStats" =>
           /\ rcLists.totalOverdue <= rcLists.totalDue
           /\ rcLists.totalDue = Len(rcLists.due)
           /\ rcLists.totalOverdue = Len(rcLists.overdue)
           /\ \A i \in 1..Len(rcLists.overdue) : Listed(rcLists.due, rcLists.overdue[i])
    /\ \A day \in BoundaryDays, later \in BOOLEAN :
           LET due == getDueRecalls(patientRecalls, Reading(day, later))
               overdue == getOverdueRecalls(patientRecalls, Reading(day, later))
           IN  /\ \A i \in 1..Len(overdue) : Listed(due, overdue[i])
               /\ Len(overdue) <= Len(due)
               /\ Ascending(due) /\ Ascending(overdue)

C15_Witness ==
    /\ rcLists.op = "getRecallStats"
    /\ rcLists.totalOverdue = 2
    /\ rcLists.totalDue = 3
    /\ rcLists.due[3].nextDue.day > rcNow

(***************************************************************************)
(* Claims about the result and the audit log of HIPAAShield.redactPHI.     *)
(***************************************************************************)
\* the placeholder tokens of the rules
Placeholders == { redactionRules[k].replace : k \in 1..Len(redactionRules) }

\* C14: every redactPHI call appends exactly one audit entry, whose redacted
\* flag tells whether redactionCount is positive; the result has
\* redactionCount 0 and no data type exactly when redactedText is the input,
\* and with a positive count redactedText holds a placeholder token and
\* differs from the input.
C14_CountTellsRedaction ==
    [][/\ Len(hsAuditLog') = Len(hsAuditLog) + 1
       /\ SubSeq(hsAuditLog', 1, Len(hsAuditLog)) = hsAuditLog
       /\ hsAuditLog'[Len(hsAuditLog')].redacted = (hsResult'.redactionCount > 0)
       /\ (hsResult'.redactionCount = 0 /\ hsResult'.dataTypesFound = <<>>)
              <=> (hsResult'.redactedText = hsText')
       /\ hsResult'.redactionCount > 0 =>
              /\ \E token \in Placeholders : Includes(hsResult'.redactedText, token)
              /\ hsResult'.redactedText # hsText']_shieldVars

C14_Witness ==
    /\ hsText = "123-45-6789@mail.com"
    /\ hsResult.redactionCount = 2
    /\ hsResult.redactedText = "[SSN-REDACTED]@mail.com"
    /\ Len(hsAuditLog) = 1
    /\ hsAuditLog[1].redacted

(***************************************************************************)
(* Claims about useAirtable.                                               *)
(***************************************************************************)
\* C13: once an operation of the hook whose Airtable request failed has
\* settled, the hook's error is the message of the failure and isLoading is
\* false; a read has resolved to null or to an empty list, a create has
\* rejected with the failure.
C13_FailureReported ==
    atEvent.kind = "settle" /\ atEvent.failed =>
        /\ atError = apiError
        /\ ~atLoading
        /\ atEvent.op \in ReadOps => ~atEvent.rejected /\ atEvent.value \in { "null", "[]" }
        /\ atEvent.op \in CreateOps => atEvent.rejected /\ atEvent.value = apiError

(***************************************************************************)
(* Claims about the transcripts of useVapi.                                *)
(***************************************************************************)
\* C16: the text of a user transcript that the message handler stores in the
\* transcript list, and the text it hands to emergency handling, is the
\* redactedText of HIPAAShield.redactPHI for the transcript received.
C16_TranscriptRedacted ==
    tvMessage.type = "transcript" /\ tvMessage.role = "user" =>
        LET raw == IF tvMessage.transcript # "" THEN tvMessage.transcript
                   ELSE tvMessage.text
        IN  /\ \A i \in 1..Len(transcript) :
                   transcript[i].id = tvCount
                       => transcript[i].text = redactPHI(raw).redactedText
            /\ tvHanded.called => tvHanded.text = redactPHI(raw).redactedText

\* the last n elements of a sequence
LastOf(seq, n) == IF Len(seq) > n THEN SubSeq(seq, Len(seq) - n + 1, Len(seq)) ELSE seq

\* C20: the transcript list never holds more than 50 entries; unless it is
\* empty it holds the latest 50 of the entries that arrived since it was
\* last empty, in arrival order; and a transcript message whose text and
\* speaker are those of an entry of the list less than 1000 ms older leaves
\* the list as it is.
C20_TranscriptBounded ==
    /\ [](/\ Len(transcript) <= 50
          /\ transcript = <<>> \/ transcript = LastOf(tvArrived, 50))
    /\ [][(/\ tvCount' = tvCount + 1
           /\ tvMessage'.type = "transcript"
           /\ \E i \in 1..Len(transcript) :
                  /\ transcript[i].text = (IF tvMessage'.transcript # ""
                                           THEN tvMessage'.transcript ELSE tvMessage'.text)
                  /\ (transcript[i].speaker = "user") = (tvMessage'.role = "user")
                  /\ tvClock' - transcript[i].timestamp < 1000)
          => transcript' = transcript]_vars

C20_Witness ==
    /\ tvCount = 52
    /\ Len(tvArrived) = 51
    /\ Len(transcript) = 50
    /\ transcript[1].id = 2
    /\ transcript[50].id = 51
    /\ tvMessage = RegularMessage(51)

(***************************************************************************)
(* Claims about the voice assistant of vapi-integration.                   *)
(***************************************************************************)
\* the calls of a function among the calls of the last handler run
CallsOf(fn) == { i \in 1..Len(viCalls) : viCalls[i].fn = fn }

C19_ErrorLogBounded ==
    /\ Len(ds.errorLog) <= 100
    /\ ds.errorLog = LastOf(elLogged, 100)
    /\ \A i \in 1..(Len(ds.errorLog) - 1) :
           ds.errorLog[i].timestamp < ds.errorLog[i + 1].timestamp
    /\ dsCall.op = "clearErrorLog" => ds.errorLog = <<>>

C19_Witness ==
    /\ elVaried
    /\ Len(elLogged) = 101
    /\ ds.logged > 101
    /\ Len(ds.errorLog) = 100
    /\ ds.errorLog[1] = elLogged[2]

(***************************************************************************)
(* Claims about the report store of ErrorBoundaryService.                  *)
(***************************************************************************)
\* C18: the report store never holds more than 100 reports, and when more
\* than 100 were reported since it was last cleared it holds exactly the 100
\* reported last.
C18_StoreHoldsMostRecent ==
    /\ Len(ebReports) <= 100
    /\ Len(ebReported) > 100 =>
           /\ Len(ebReports) = 100
           /\ { ebReports[i].rank : i \in 1..Len(ebReports) }
                  = { ebReported[i] : i \in (Len(ebReported) - 99)..Len(ebReported) }

(***************************************************************************)
(* Claims about DentalService.initialize.                                  *)
(***************************************************************************)
\* C21: a call of initialize made after a call that returned true returns
\* true and leaves initializationAttempts and the error log as they were; a
\* call sets a retry timeout only when it fails with initializationAttempts
\* below 3; and no more than 2 retries are scheduled in all.
C21_InitializeSettles ==
    /\ inEvent.succeeded =>
           /\ inEvent.ret
           /\ ds.initializationAttempts = inEvent.attempts
           /\ ds.errorLog = inEvent.errorLog
    /\ inEvent.scheduled => ~inEvent.ret /\ ds.initializationAttempts < 3
    /\ inScheduled <= 2

C21_Witness ==
    /\ inEvent.op = "initialize"
    /\ ~inEvent.ret
    /\ ~inEvent.scheduled
    /\ inScheduled = 2
    /\ ds.retryTimers = 0
    /\ ds.initializationAttempts = 6

(***************************************************************************)
(* Claims about the emergency bookings of DentalService.                   *)
(***************************************************************************)
\* minutes from 00:00 of the day of the call
MinutesOf(t) == (t.day * 24 + t.hour) * 60 + t.minute

\* C22: an emergency booking is made for 2 hours after the call when one of
\* the matched keywords is a high-urgency keyword and for 6 hours after it
\* otherwise; when the hour of the day of that time is below 8 or above 20
\* the booking is for 08:00 of the day after it; so the hour of the day booked
\* is from 8 to 20 and the booking is not earlier than that time.
C22_BookedInBusinessHours ==
    dbBooking.booked =>
        LET high == \E k \in 1..Len(dbBooking.keywords), u \in 1..Len(highUrgencyKeywords) :
                        dbBooking.keywords[k] = highUrgencyKeywords[u]
            unadjusted == dbBooking.hour * 60 + dbBooking.minute + (IF high THEN 120 ELSE 360)
            unadjustedHour == (unadjusted \div 60) % 24
            booked == dbBooking.appointmentTime
        IN  /\ IF unadjustedHour < 8 \/ unadjustedHour > 20
               THEN booked = [day |-> unadjusted \div 1440 + 1, hour |-> 8, minute |-> 0]
               ELSE MinutesOf(booked) = unadjusted
            /\ booked.hour >= 8 /\ booked.hour <= 20
            /\ MinutesOf(booked) >= unadjusted

C22_Witness ==
    /\ dbBooking.booked
    /\ dbBooking.urgencyLevel = "high"
    /\ dbBooking.hour = 19 /\ dbBooking.minute = 30
    /\ dbBooking.appointmentTime = [day |-> 1, hour |-> 8, minute |-> 0]

(***************************************************************************)
(* Claims about ErrorBoundaryService.attemptRecovery.                      *)
(***************************************************************************)
\* the strategies whose condition holds for a message, in the order of
\* their priority 1, 2, 3, 10
ApplicableNames(message) ==
    LET applies == [name \in { "VAPI Connection Recovery", "Component Reinitialization",
                               "Service Restart", "Fallback Mode" } |->
                       CASE name = "VAPI Connection Recovery" ->
                                Includes(message, "VAPI") \/ Includes(message, "connection")
                         [] name = "Component Reinitialization" ->
                                Includes(message, "component") \/ Includes(message, "render")
                         [] name = "Service Restart" ->
                                Includes(message, "service") \/ Includes(message, "initialize")
                         [] OTHER -> TRUE]
    IN  SelectSeq(<< "VAPI Connection Recovery", "Component Reinitialization",
                     "Service Restart", "Fallback Mode" >>, LAMBDA name : applies[name])

\* C23: the recovery of a reported error runs the applicable strategies in
\* the order of their priority, with none left out before the last one run;
\* only the last one run can have succeeded; the recovery returns true
\* exactly when it did; and when it returns false every applicable strategy
\* was run.
C23_RecoveryInPriorityOrder ==
    ebEvent.op = "reportError" =>
        LET tried == ebEvent.ret.tried
            applicable == ApplicableNames(ebEvent.ret.message)
        IN  /\ Len(tried) <= Len(applicable)
            /\ \A i \in 1..Len(tried) : tried[i].name = applicable[i]
            /\ \A i \in 1..(Len(tried) - 1) :
                   /\ tried[i].priority < tried[i + 1].priority
                   /\ ~tried[i].success
            /\ ebEvent.ret.recovered = (tried # <<>> /\ tried[Len(tried)].success)
            /\ ~ebEvent.ret.recovered => Len(tried) = Len(applicable)

C23_Witness ==
    /\ ebEvent.op = "reportError"
    /\ ebEvent.ret.message = "VAPI service failed to render"
    /\ ebEvent.ret.recovered
    /\ Len(ebEvent.ret.tried) = 3
    /\ ebEvent.ret.tried[3].name = "Service Restart"

(***************************************************************************)
(* Claims about AirtableService.createEmergencyAppointment.                *)
(***************************************************************************)
\* C24: createEmergencyAppointment writes a patient record only when the
\* base held no patient with the telephone number given; its writes are, in
\* this order, the patient (if written), the appointment and the emergency
\* log entry; and the patientId of the appointment is the id of a patient of
\* the base with that number.
C24_FindOrCreatePatient ==
    abEvent.op = "createEmergencyAppointment" =>
        /\ (\E i \in 1..Len(abEvent.writes) : abEvent.writes[i] = "Patients")
               => \A i \in 1..Len(abEvent.before) : abEvent.before[i].phone # abEvent.phone
        /\ abEvent.writes \in
               { <<>>, <<"Patients">>, <<"Patients", "Appointments">>,
                 <<"Patients", "Appointments", "Emergency Log">>,
                 <<"Appointments">>, <<"Appointments", "Emergency Log">> }
        /\ (\E i \in 1..Len(abEvent.writes) : abEvent.writes[i] = "Appointments")
               => \E i \in 1..Len(abBase.patients) :
                      /\ abBase.patients[i].id
                             = abBase.appointments[Len(abBase.appointments)].patientId
                      /\ DigitsOnly(abBase.patients[i].phone) = DigitsOnly(abEvent.phone)

====
